---- MODULE Spec2Model ----
(***************************************************************************)
(* A model of the PEG engine of salikh/peg: the interpreting parser        *)
(* (package parser2: forward and backward matchers, packrat memo table,    *)
(* node attachment, content annotation) and the rule-reference closure of  *)
(* the bootstrap parser (package parser).                                  *)
(*                                                                         *)
(* Strings are sequences of one-byte characters; a Go offset p is the      *)
(* number of bytes before it, so s[i:j] is SubSeq(s, i+1, j).              *)
(* A *parser.Node is named by the memo key <<pos, rule>> under which       *)
(* Result.apply stored it (apply creates exactly one node per key), and    *)
(* the memo table doubles as the heap of finished nodes.  The node that is *)
(* being built is a record on the node stack.                              *)
(***************************************************************************)
EXTENDS Integers, Sequences, FiniteSets, TLC

\* Longest input that is parsed.
MaxLen == 3

\* The rule applications that fit on the goroutine stack, one inside the other.
MaxDepth == 5

\* The bytes inputs are made of; the newline is also the white space of the
\* grammars taken from the tests.
NL == "\n"
Chars == {"a", "b", NL}

Inputs == UNION {[1..n -> Chars] : n \in 0..MaxLen}

\* error values: NoErr is Go's nil error, the others name the fmt.Errorf sites.
NoErr == "nil"

\* s[i:j] of Go.
Slice(s, i, j) == SubSeq(s, i + 1, j)

(***************************************************************************)
(* Grammar model: Term, Special, RHS, Rule (parser2.go:94-132)             *)
(***************************************************************************)
Literal(s) == [kind |-> "Literal", lit |-> s]
CharClass(set, negated) ==
    [kind |-> "CharClass", special |-> "", map |-> set, ranges |-> {}, negated |-> negated]
Dot == [kind |-> "CharClass", special |-> "[:any:]", map |-> {}, ranges |-> {},
        negated |-> FALSE]
Ident(name) == [kind |-> "Ident", ident |-> name]
Special(t, rune) == [kind |-> "Special", term |-> t, rune |-> rune]
Parens(rhs) == [kind |-> "Parens", rhs |-> rhs]
NegPred(t) == [kind |-> "NegPred", term |-> t]
Pred(t) == [kind |-> "Pred", term |-> t]
Capture(rhs) == [kind |-> "Capture", rhs |-> rhs]

\* handler results: (int, error) of a handler, with the Result it ran on.
Ret(w, err, r) == [w |-> w, err |-> err, r |-> r]

\* parser.Node as created by apply: &parser.Node{Label: ru.Ident, Pos: pos}.
NewNode(label, pos) ==
    [Label |-> label, Text |-> <<>>, Pos |-> pos, Len |-> 0,
     Children |-> <<>>, Err |-> NoErr, Annotations |-> {}, Cap |-> <<>>,
     TreeAnnotations |-> {}, Content |-> <<>>, Row |-> 0, Col |-> 0]

NoTree == <<>>

TopNode(r) == r.nodeStack[Len(r.nodeStack)]

SetTopChildren(r, ch) ==
    [r EXCEPT !.nodeStack[Len(r.nodeStack)].Children = ch]


\* ghost: an observation of one handler call, kept in call order.
Observe(r, ev) == [r EXCEPT !.log = Append(@, ev)]

\* ghost: the capture range the current node owes its Text to, see makeCaptureHandler.
SetTopCap(r, cap) == [r EXCEPT !.nodeStack[Len(r.nodeStack)].Cap = cap]

\* ghost: a handler that failed is not on the path that makes the rule succeed.
OnPath(h, r0) == IF h.err = NoErr THEN h ELSE [h EXCEPT !.r = SetTopCap(h.r, TopNode(r0).Cap)]

(***************************************************************************)
(* The grammars that are parsed.  Each is accepted by parser2.New; the     *)
(* first five are grammars of the repository's tests over the bytes of     *)
(* Chars (NL for the tests' white space and for 'z').                      *)
(***************************************************************************)
Star(t) == Special(t, "*")
Plus(t) == Special(t, "+")
Quest(t) == Special(t, "?")
La == Literal(<<"a">>)
Lb == Literal(<<"b">>)
Ln == Literal(<<NL>>)
Seq1(terms) == << terms >>

\* X <- 'a' < 'b'* > '\n'                               (tests.Capture)
GCapture ==
    [RuleNames |-> <<"X">>,
     Rules |-> ("X" :> Seq1(<<La, Capture(Seq1(<<Star(Lb)>>)), Ln>>))]

\* X <- _ A (_ A)* _ ;  A <- 'a'+ ;  _ <- '\n'*         (tests.Capture)
GList ==
    [RuleNames |-> <<"X", "A", "_">>,
     Rules |-> ("X" :> Seq1(<<Ident("_"), Ident("A"),
                              Star(Parens(Seq1(<<Ident("_"), Ident("A")>>))),
                              Ident("_")>>)
                @@ "A" :> Seq1(<<Plus(La)>>)
                @@ "_" :> Seq1(<<Star(Ln)>>))]

\* Ident3 <- Space 'a'+ / Space 'b'+ ;  Space <- '\n'*  (tests.Positive)
GIdent3 ==
    [RuleNames |-> <<"Ident3", "Space">>,
     Rules |-> ("Ident3" :> << <<Ident("Space"), Plus(La)>>,
                               <<Ident("Space"), Plus(Lb)>> >>
                @@ "Space" :> Seq1(<<Star(Ln)>>))]

\* Top <- _ A* B* ;  A <- <"a"*> _ ;  B <- <"b"*> _ ;  _ <- [\n]*   (package backward)
GBackward ==
    [RuleNames |-> <<"Top", "A", "B", "_">>,
     Rules |-> ("Top" :> Seq1(<<Ident("_"), Star(Ident("A")), Star(Ident("B"))>>)
                @@ "A" :> Seq1(<<Capture(Seq1(<<Star(La)>>)), Ident("_")>>)
                @@ "B" :> Seq1(<<Capture(Seq1(<<Star(Lb)>>)), Ident("_")>>)
                @@ "_" :> Seq1(<<Star(CharClass({NL}, FALSE))>>))]

\* Quoted <- 'a' ( !'a' . )* 'a' / 'b' !'b' .*          (tests.Positive: Quoted1 / Quoted2)
GQuoted ==
    [RuleNames |-> <<"Quoted">>,
     Rules |-> ("Quoted" :> << <<La, Star(Parens(Seq1(<<NegPred(La), Dot>>))), La>>,
                               <<Lb, NegPred(Lb), Star(Dot)>> >>)]

\* Top <- A? B ;  A <- 'a' 'b' ;  B <- 'a' [ab\n]? / 'b'
GOpt ==
    [RuleNames |-> <<"Top", "A", "B">>,
     Rules |-> ("Top" :> Seq1(<<Quest(Ident("A")), Ident("B")>>)
                @@ "A" :> Seq1(<<La, Lb>>)
                @@ "B" :> << <<La, Quest(CharClass({"a", "b", NL}, FALSE))>>, <<Lb>> >>)]

\* Top <- &A A B* / !A B+ ;  A <- 'a' ;  B <- 'b'
GPred ==
    [RuleNames |-> <<"Top", "A", "B">>,
     Rules |-> ("Top" :> << <<Pred(Ident("A")), Ident("A"), Star(Ident("B"))>>,
                            <<NegPred(Ident("A")), Plus(Ident("B"))>> >>
                @@ "A" :> Seq1(<<La>>)
                @@ "B" :> Seq1(<<Lb>>))]

\* Word <- ( <[ab]> '\n' )* [ab]
GLeak ==
    [RuleNames |-> <<"Word">>,
     Rules |-> ("Word" :> Seq1(<<Star(Parens(Seq1(<<
                                   Capture(Seq1(<<CharClass({"a", "b"}, FALSE)>>)),
                                   Ln>>))),
                                 CharClass({"a", "b"}, FALSE)>>))]

\* Top <- A 'a' / A? 'b' ;  A <- 'a' 'a'
GChoice ==
    [RuleNames |-> <<"Top", "A">>,
     Rules |-> ("Top" :> << <<Ident("A"), La>>, <<Quest(Ident("A")), Lb>> >>
                @@ "A" :> Seq1(<<La, La>>))]

\* Top <- B* A &A ;  A <- 'a' ;  B <- 'b'      (a grammar for ParseBackward)
GTail ==
    [RuleNames |-> <<"Top", "A", "B">>,
     Rules |-> ("Top" :> Seq1(<<Star(Ident("B")), Ident("A"), Pred(Ident("A"))>>)
                @@ "A" :> Seq1(<<La>>)
                @@ "B" :> Seq1(<<Lb>>))]

\* Top <- 'a'*      (a start rule that can match nothing)
GRun ==
    [RuleNames |-> <<"Top">>,
     Rules |-> ("Top" :> Seq1(<<Star(La)>>))]

\* A <- A 'a' / 'a'      (A refers to itself before it consumed anything)
GLeft ==
    [RuleNames |-> <<"A">>,
     Rules |-> ("A" :> << <<Ident("A"), La>>, <<La>> >>)]

\* A <- 'a' A / 'a'      (A refers to itself after it consumed a byte)
GRight ==
    [RuleNames |-> <<"A">>,
     Rules |-> ("A" :> << <<La, Ident("A")>>, <<La>> >>)]

\* Top <- ( A 'b' )? 'a'* ;  A <- 'a'
GOptGroup ==
    [RuleNames |-> <<"Top", "A">>,
     Rules |-> ("Top" :> Seq1(<<Quest(Parens(Seq1(<<Ident("A"), Lb>>))), Star(La)>>)
                @@ "A" :> Seq1(<<La>>))]

GrammarSources ==
    <<GCapture, GList, GIdent3, GBackward, GQuoted, GOpt, GPred, GLeak, GChoice, GTail, GRun,
      GLeft, GRight, GOptGroup>>

Rules(r) == GrammarSources[r.Grammar.src].Rules
RuleNames(g) == GrammarSources[g.src].RuleNames

(***************************************************************************)
(* Forward matchers.  A handler of the source is a closure func(r, pos);   *)
(* its model takes the Result, what the closure captured, and pos, and     *)
(* returns (w, err) with the Result as the call left it.                   *)
(***************************************************************************)
RuneError == "RuneError"

\* the two bytes of the encoding of U+00E9, and the scalar they decode to
LeadByte == "C3"
ContByte == "A9"
EAcute == "U+00E9"

\* utf8.DecodeRuneInString: (RuneError, 0) at the end, (RuneError, 1) on a byte
\* that does not start a complete encoding, the scalar and its length otherwise.
DecodeRuneInString(s) ==
    IF Len(s) = 0 THEN [c |-> RuneError, w |-> 0]
    ELSE IF s[1] = LeadByte
    THEN IF Len(s) >= 2 /\ s[2] = ContByte
         THEN [c |-> EAcute, w |-> 2]
         ELSE [c |-> RuneError, w |-> 1]
    ELSE IF s[1] = ContByte THEN [c |-> RuneError, w |-> 1]
    ELSE [c |-> s[1], w |-> 1]

\* the code points of the scalars of the model
CodePoint(c) ==
    CASE c = NL -> 10
      [] c = "a" -> 97
      [] c = "b" -> 98
      [] c = EAcute -> 233
      [] OTHER -> 65533

\* unicode.Is(cc.RangeTable, c): c lies in one of the ranges <<lo, hi>>
unicodeIs(ranges, c) ==
    \E rg \in ranges : CodePoint(rg[1]) <= CodePoint(c) /\ CodePoint(c) <= CodePoint(rg[2])

\* the switch on cc.Special; a name without a case leaves match false.
SpecialMatch(special, c) ==
    CASE special = "[:any:]" -> TRUE
      [] special = "IsLetter" -> c \in {"a", "b", EAcute}
      [] special = "IsSpace" -> c = NL
      [] OTHER -> FALSE

makeLiteralHandler(r, literal, pos) ==
    IF Len(r.Source) - pos < Len(literal)
    THEN Ret(0, "expecting", r)
    ELSE IF Slice(r.Source, pos, pos + Len(literal)) # literal
         THEN Ret(0, "Expecting literal", r)
         ELSE Ret(Len(literal), NoErr, r)

makeCharClassHandler(r, cc, pos) ==
    LET d == DecodeRuneInString(Slice(r.Source, pos, Len(r.Source))) IN
    IF cc.special # ""
    THEN IF d.w = 0 THEN Ret(0, "got EOF", r)
         ELSE LET match == (SpecialMatch(cc.special, d.c) # cc.negated) IN
              IF ~match THEN Ret(0, "does not match class", r)
              ELSE Ret(d.w, NoErr, r)
    ELSE IF d.w = 0 THEN Ret(0, "got EOF", r)
         ELSE IF d.c = RuneError THEN Ret(0, "got RuneError", r)
         ELSE LET match == ((d.c \in cc.map \/ unicodeIs(cc.ranges, d.c)) # cc.negated) IN
              IF ~match THEN Ret(0, "does not match class", r)
              ELSE Ret(d.w, NoErr, r)

\* a variant of the test in Attach that does not look at n.Text
TrivialIgnoringText(r, n) ==
    /\ Len(n.Children) = 0
    /\ Cardinality(n.Annotations) = 0
    /\ Cardinality(n.TreeAnnotations) = 0
    /\ Len(r.nodeStack) > 0

\* the condition of the if in Attach, without SkipEmptyNodes
Trivial(r, n) ==
    /\ n.Text = <<>>
    /\ Len(n.Children) = 0
    /\ Cardinality(n.Annotations) = 0
    /\ Cardinality(n.TreeAnnotations) = 0
    /\ Len(r.nodeStack) > 0

\* Result.Attach; the node is r.memo[key].
Attach(r, key) ==
    LET n == r.memo[key]
        last == Len(r.nodeStack) - 1
    IN  IF r.Grammar.SkipEmptyNodes /\ Trivial(r, n)
        THEN r
        ELSE IF last < 0
             THEN IF r.Tree # NoTree
                  THEN [r EXCEPT !.exited = TRUE]
                  ELSE [r EXCEPT !.Tree = key]
             ELSE SetTopChildren(r, Append(TopNode(r).Children, key))

RECURSIVE makeRHSHandler(_, _, _)
RECURSIVE choiceLoop(_, _, _, _, _)
RECURSIVE makeGroupHandler(_, _, _)
RECURSIVE groupLoop(_, _, _, _, _, _)
RECURSIVE groupStep(_, _, _, _, _, _, _)
RECURSIVE makeTermHandler(_, _, _)
RECURSIVE starLoop(_, _, _, _, _)
RECURSIVE starStep(_, _, _, _, _, _)
RECURSIVE apply(_, _, _)

\* Result.apply when r.memo holds a node n for (pos, rule)
applyHit(r, key, n) ==
    IF n.Err # NoErr
    THEN Ret(n.Len, n.Err,
             Observe(r, [ev |-> "apply", key |-> key, hit |-> TRUE,
                         depth |-> Len(r.nodeStack),
                         w |-> n.Len, err |-> n.Err, attached |-> FALSE]))
    ELSE LET r1 == Attach(r, key) IN
         Ret(n.Len, NoErr,
             Observe(r1, [ev |-> "apply", key |-> key, hit |-> TRUE,
                          depth |-> Len(r.nodeStack),
                          w |-> n.Len, err |-> NoErr, attached |-> r1 # r]))

\* Result.apply after the rule's handler returned h = (w, err): pop the node,
\* fill in Len and Err, memoize it, attach it.
applyReturn(r, key, h) ==
    LET n  == [TopNode(h.r) EXCEPT !.Len = h.w, !.Err = h.err]
        r2 == [h.r EXCEPT !.nodeStack = SubSeq(@, 1, Len(@) - 1),
                          !.memo = (key :> n) @@ @]
        r3 == Attach(r2, key)
    IN  Ret(h.w, h.err,
            Observe(r3, [ev |-> "apply", key |-> key, hit |-> FALSE,
                         depth |-> Len(r.nodeStack),
                         w |-> h.w, err |-> h.err, attached |-> r3 # r2]))

\* the goroutine stack is exhausted: the program ends with a fatal error.
\* ghost: overflow keeps the Result as it was then.
StackOverflow(r) ==
    Ret(0, "stack overflow", IF r.overflow # <<>> THEN r ELSE [r EXCEPT !.overflow = <<r>>])

\* Result.apply; ghost: with r.recompute the memo table is never consulted
apply(r, ru, pos) ==
    IF <<pos, ru>> \in DOMAIN r.memo /\ ~r.recompute
    THEN applyHit(r, <<pos, ru>>, r.memo[<<pos, ru>>])
    ELSE IF Len(r.nodeStack) >= MaxDepth
    THEN StackOverflow(r)
    ELSE applyReturn(r, <<pos, ru>>,
                     makeRHSHandler([r EXCEPT !.nodeStack = Append(@, NewNode(ru, pos))],
                                    Rules(r)[ru], pos))

\* what alternative i returned, with the alternative that won (0: none yet)
choiceResult(h, i) ==
    [w |-> h.w, err |-> h.err, r |-> h.r, won |-> IF h.err = NoErr THEN i ELSE 0]

\* the retry loop of the closure of makeRHSHandler: r0 is the Result on entry
choiceLoop(prev, choices, i, pos, r0) ==
    IF prev.err # NoErr /\ i <= Len(choices)
    THEN choiceLoop(
             choiceResult(
                 makeGroupHandler(
                     SetTopCap(SetTopChildren(prev.r, TopNode(r0).Children),
                               TopNode(r0).Cap),
                     choices[i], pos),
                 i),
             choices, i + 1, pos, r0)
    ELSE prev

\* the return of the closure of makeRHSHandler once the loop ended with last
rhsReturn(r, rhs, pos, last) ==
    LET ev == [ev |-> "choice", pos |-> pos, rhs |-> rhs, won |-> last.won,
               w |-> last.w, err |-> last.err, before |-> TopNode(r).Children,
               after |-> TopNode(last.r).Children,
               entry |-> [r EXCEPT !.log = <<>>]]
    IN  IF last.err # NoErr
        THEN Ret(last.w, "rhsError", Observe(last.r, ev))
        ELSE Ret(last.w, NoErr, Observe(last.r, ev))

makeRHSHandler(r, rhs, pos) ==
    IF Len(rhs) = 1
    THEN makeGroupHandler(r, rhs[1], pos)
    ELSE rhsReturn(r, rhs, pos,
                   choiceLoop(choiceResult(makeGroupHandler(r, rhs[1], pos), 1),
                              rhs, 2, pos, r))

\* the body of the loop of makeGroupHandler after handler i returned h
groupStep(terms, i, pos, ww, starts, h, hpos) ==
    IF h.err # NoErr
    THEN Ret(ww, h.err,
             Observe(h.r, [ev |-> "group", terms |-> terms,
                           starts |-> Append(starts, hpos)]))
    ELSE groupLoop(h.r, terms, i + 1, pos, ww + h.w, Append(starts, hpos))

\* the loop of the closure of makeGroupHandler
groupLoop(r, terms, i, pos, ww, starts) ==
    IF i > Len(terms)
    THEN Ret(ww, NoErr, Observe(r, [ev |-> "group", terms |-> terms, starts |-> starts]))
    ELSE groupStep(terms, i, pos, ww, starts,
                   makeTermHandler(r, terms[i], pos + ww), pos + ww)

makeGroupHandler(r, terms, pos) ==
    IF Len(terms) = 1
    THEN makeTermHandler(r, terms[1], pos)
    ELSE groupLoop(r, terms, 1, pos, 0, <<>>)

\* the closure of makeCaptureHandler after the captured RHS returned h
captureReturn(r, pos, h) ==
    IF h.err # NoErr
    THEN Ret(h.w, h.err, h.r)
    ELSE LET r1 == [h.r EXCEPT !.nodeStack[Len(h.r.nodeStack)].Text =
                                   Slice(r.Source, pos, pos + h.w)]
         IN  Ret(h.w, NoErr, SetTopCap(r1, <<pos, h.w>>))

makeCaptureHandler(r, rhs, pos) == captureReturn(r, pos, makeRHSHandler(r, rhs, pos))

\* a variant of starStep that keeps what the terminating iteration appended
starStepNoRestore(r, term, pos, ww, save, h) ==
    IF h.err = NoErr /\ h.w > 0
    THEN starLoop(h.r, term, pos, ww + h.w, TopNode(h.r).Children)
    ELSE Ret(ww, h.err, h.r)

\* one iteration of the for loop after the term returned h
starStep(r, term, pos, ww, save, h) ==
    IF h.err = NoErr /\ h.w > 0
    THEN starLoop(h.r, term, pos, ww + h.w, TopNode(h.r).Children)
    ELSE Ret(ww, h.err, SetTopCap(SetTopChildren(h.r, save), TopNode(r).Cap))

\* the for loop of makeStarHandler and makePlusHandler: ww bytes matched so
\* far, save the children as of the last counted iteration.
starLoop(r, term, pos, ww, save) ==
    starStep(r, term, pos, ww, save, makeTermHandler(r, term, pos + ww))

\* the return of the closure of makeStarHandler once its loop ended with l
starReturn(l) ==
    IF l.w = 0 /\ l.err # NoErr
    THEN Ret(l.w, NoErr, [l.r EXCEPT !.fyiError = l.err])
    ELSE Ret(l.w, NoErr, l.r)

\* ghost: the return of a star closure entered in state r, recorded
starEvent(dir, r, term, pos, ret) ==
    Ret(ret.w, ret.err,
        Observe(ret.r, [ev |-> "star", dir |-> dir, term |-> term, pos |-> pos,
                        w |-> ret.w, err |-> ret.err,
                        before |-> TopNode(r).Children,
                        after |-> TopNode(ret.r).Children,
                        entry |-> [r EXCEPT !.log = <<>>]]))

makeStarHandler(r, term, pos) ==
    starEvent("forward", r, term, pos,
              starReturn(starLoop(r, term, pos, 0, TopNode(r).Children)))

\* the return of the closure of makePlusHandler once its loop ended with l
plusReturn(l) == Ret(l.w, NoErr, l.r)

\* the closure of makePlusHandler after the first run of the term returned h
plusFirst(term, pos, h) ==
    IF h.err # NoErr
    THEN Ret(h.w, h.err, h.r)
    ELSE plusReturn(starLoop(h.r, term, pos, h.w, TopNode(h.r).Children))

makePlusHandler(r, term, pos) == plusFirst(term, pos, makeTermHandler(r, term, pos))

\* the closure of makeQuestionHandler after the term returned h
questionReturn(h) ==
    IF h.err # NoErr
    THEN Ret(0, NoErr, h.r)
    ELSE Ret(h.w, NoErr, h.r)

\* the optional's return with the attempt recorded: the children and the Text
\* of the current node before the term was tried and after the optional returned
questionEvent(r, pos, h, ret) ==
    Ret(ret.w, ret.err,
        Observe(ret.r, [ev |-> "question", pos |-> pos, inner |-> h.err, w |-> ret.w,
                        err |-> ret.err,
                        before |-> TopNode(r).Children, after |-> TopNode(ret.r).Children]))

questionDone(r, pos, h) == questionEvent(r, pos, h, questionReturn(h))

makeQuestionHandler(r, term, pos) == questionDone(r, pos, makeTermHandler(r, term, pos))

makeSpecialHandler(r, special, pos) ==
    CASE special.rune = "*" -> makeStarHandler(r, special.term, pos)
      [] special.rune = "?" -> makeQuestionHandler(r, special.term, pos)
      [] special.rune = "+" -> makePlusHandler(r, special.term, pos)

\* a variant of the predicate's return that reports the term's width
predicateReturnConsuming(positive, h) ==
    IF positive = (h.err = NoErr)
    THEN Ret(h.w, NoErr, h.r)
    ELSE IF h.err = NoErr
         THEN Ret(0, "negative predicate matched", h.r)
         ELSE Ret(0, h.err, h.r)

\* what the closure of makePredicateHandler returns after the term returned h
predicateReturn(positive, h) ==
    IF positive = (h.err = NoErr)
    THEN Ret(0, NoErr, h.r)
    ELSE IF h.err = NoErr
         THEN Ret(0, "negative predicate matched", h.r)
         ELSE Ret(0, h.err, h.r)

\* the predicate's return with the attempt recorded
predicateEvent(r, positive, pos, h, ret) ==
    Ret(ret.w, ret.err,
        Observe(ret.r, [ev |-> "pred", positive |-> positive, pos |-> pos,
                        inner |-> h.err, w |-> ret.w, err |-> ret.err,
                        before |-> TopNode(r).Children, after |-> TopNode(ret.r).Children,
                        textBefore |-> TopNode(r).Text, textAfter |-> TopNode(ret.r).Text]))

predicateDone(r, positive, pos, h) ==
    predicateEvent(r, positive, pos, h, predicateReturn(positive, h))

makePredicateHandler(r, term, positive, pos) ==
    predicateDone(r, positive, pos, makeTermHandler(r, term, pos))

makeRuleHandler(r, name, pos) == apply(r, name, pos)

makeTermHandler(r, term, pos) ==
    OnPath(CASE term.kind = "Parens" -> makeRHSHandler(r, term.rhs, pos)
             [] term.kind = "NegPred" -> makePredicateHandler(r, term.term, FALSE, pos)
             [] term.kind = "Pred" -> makePredicateHandler(r, term.term, TRUE, pos)
             [] term.kind = "Special" -> makeSpecialHandler(r, term, pos)
             [] term.kind = "Capture" -> makeCaptureHandler(r, term.rhs, pos)
             [] term.kind = "CharClass" -> makeCharClassHandler(r, term, pos)
             [] term.kind = "Literal" -> makeLiteralHandler(r, term.lit, pos)
             [] term.kind = "Ident" -> makeRuleHandler(r, term.ident, pos),
           r)

\* &Result{Grammar: g, Source: input, memo: ..., nodeStack: ..., rowCol: ...}
NewResult(g, input) ==
    [Grammar |-> g, Source |-> input, Tree |-> NoTree, memo |-> <<>>,
     nodeStack |-> <<>>, fyiError |-> NoErr, exited |-> FALSE, log |-> <<>>,
     overflow |-> <<>>, recompute |-> FALSE]

NilResult == [Grammar |-> <<>>]

\* a variant of the checks without "w == 0 && len(input) > 0"
AcceptNoZeroCheck(g, input, a) ==
    IF a.r.overflow # <<>>
    THEN [result |-> a.r.overflow[1], err |-> "stack overflow"]
    ELSE IF a.err # NoErr
    THEN [result |-> a.r, err |-> a.err]
    ELSE IF a.w # Len(input) /\ ~g.IgnoreUnconsumedTail
    THEN [result |-> a.r, err |-> "remain unconsumed"]
    ELSE IF a.r.Tree = NoTree
    THEN [result |-> NilResult, err |-> "no syntax tree"]
    ELSE [result |-> a.r, err |-> NoErr]

\* the checks of Parse and ParseRule on the start rule's (w, err)
Accept(g, input, a) ==
    IF a.r.overflow # <<>>
    THEN [result |-> a.r.overflow[1], err |-> "stack overflow"]
    ELSE IF a.err # NoErr
    THEN [result |-> a.r, err |-> a.err]
    ELSE IF a.w = 0 /\ Len(input) > 0
    THEN [result |-> a.r, err |-> "matched 0 characters"]
    ELSE IF a.w # Len(input) /\ ~g.IgnoreUnconsumedTail
    THEN [result |-> a.r, err |-> "remain unconsumed"]
    ELSE IF a.r.Tree = NoTree
    THEN [result |-> NilResult, err |-> "no syntax tree"]
    ELSE [result |-> a.r, err |-> NoErr]

\* Grammar.Parse
Parse(g, input) ==
    IF Len(RuleNames(g)) = 0
    THEN [result |-> NilResult, err |-> "grammar without rules"]
    ELSE LET topRule == RuleNames(g)[1] IN
         IF topRule \notin DOMAIN GrammarSources[g.src].Rules
         THEN [result |-> NilResult, err |-> "missing top rule"]
         ELSE Accept(g, input, apply(NewResult(g, input), topRule, 0))

\* Grammar.ParseRule
ParseRule(g, input, ruleName) ==
    IF Len(RuleNames(g)) = 0
    THEN [result |-> NilResult, err |-> "grammar without rules"]
    ELSE LET name == IF ruleName = "" THEN RuleNames(g)[1] ELSE ruleName IN
         IF name \notin DOMAIN GrammarSources[g.src].Rules
         THEN [result |-> NilResult, err |-> "missing rule"]
         ELSE Accept(g, input, apply(NewResult(g, input), name, 0))

(***************************************************************************)
(* Backward matchers: pos is the offset just after the bytes to match.     *)
(***************************************************************************)
\* utf8.DecodeLastRuneInString: the scalar that ends at the end of s
DecodeLastRuneInString(s) ==
    IF Len(s) = 0 THEN [c |-> RuneError, w |-> 0]
    ELSE IF s[Len(s)] = ContByte
    THEN IF Len(s) >= 2 /\ s[Len(s) - 1] = LeadByte
         THEN [c |-> EAcute, w |-> 2]
         ELSE [c |-> RuneError, w |-> 1]
    ELSE IF s[Len(s)] = LeadByte THEN [c |-> RuneError, w |-> 1]
    ELSE [c |-> s[Len(s)], w |-> 1]

makeBackwardLiteralHandler(r, literal, pos) ==
    IF pos < Len(literal)
    THEN Ret(0, "expecting", r)
    ELSE IF Slice(r.Source, pos - Len(literal), pos) # literal
         THEN Ret(0, "Expecting literal", r)
         ELSE Ret(Len(literal), NoErr, r)

makeBackwardCharClassHandler(r, cc, pos) ==
    LET d == DecodeLastRuneInString(Slice(r.Source, 0, pos)) IN
    IF d.w = 0 THEN Ret(0, "got EOF", r)
    ELSE IF d.c = RuneError THEN Ret(0, "got RuneError", r)
    ELSE LET in == IF cc.special # "" THEN SpecialMatch(cc.special, d.c)
                   ELSE d.c \in cc.map \/ unicodeIs(cc.ranges, d.c)
             match == (in # cc.negated)
         IN  IF ~match THEN Ret(0, "does not match class", r)
             ELSE Ret(d.w, NoErr, r)

RECURSIVE makeBackwardRHSHandler(_, _, _)
RECURSIVE backwardChoiceLoop(_, _, _, _, _)
RECURSIVE makeBackwardGroupHandler(_, _, _)
RECURSIVE backwardGroupLoop(_, _, _, _, _)
RECURSIVE backwardGroupStep(_, _, _, _, _)
RECURSIVE makeBackwardTermHandler(_, _, _)
RECURSIVE backwardStarLoop(_, _, _, _, _)
RECURSIVE backwardStarStep(_, _, _, _, _, _)
RECURSIVE backwardApply(_, _, _)

\* Result.backwardApply when r.memo holds a node n for (pos, rule)
backwardApplyHit(r, key, n) ==
    IF n.Err # NoErr
    THEN Ret(n.Len, n.Err,
             Observe(r, [ev |-> "apply", key |-> key, hit |-> TRUE,
                         depth |-> Len(r.nodeStack),
                         w |-> n.Len, err |-> n.Err, attached |-> FALSE]))
    ELSE LET r1 == Attach(r, key) IN
         Ret(n.Len, NoErr,
             Observe(r1, [ev |-> "apply", key |-> key, hit |-> TRUE,
                          depth |-> Len(r.nodeStack),
                          w |-> n.Len, err |-> NoErr, attached |-> r1 # r]))

\* Result.backwardApply after the rule's handler returned h
backwardApplyReturn(r, key, h) ==
    LET n  == [TopNode(h.r) EXCEPT !.Len = h.w, !.Err = h.err]
        r2 == [h.r EXCEPT !.nodeStack = SubSeq(@, 1, Len(@) - 1),
                          !.memo = (key :> n) @@ @]
        r3 == Attach(r2, key)
    IN  Ret(h.w, h.err,
            Observe(r3, [ev |-> "apply", key |-> key, hit |-> FALSE,
                         depth |-> Len(r.nodeStack),
                         w |-> h.w, err |-> h.err, attached |-> r3 # r2]))

\* Result.backwardApply
backwardApply(r, ru, pos) ==
    IF <<pos, ru>> \in DOMAIN r.memo /\ ~r.recompute
    THEN backwardApplyHit(r, <<pos, ru>>, r.memo[<<pos, ru>>])
    ELSE IF Len(r.nodeStack) >= MaxDepth
    THEN StackOverflow(r)
    ELSE backwardApplyReturn(r, <<pos, ru>>,
             makeBackwardRHSHandler([r EXCEPT !.nodeStack = Append(@, NewNode(ru, pos))],
                                    Rules(r)[ru], pos))

\* the retry loop of the closure of makeBackwardRHSHandler
backwardChoiceLoop(prev, choices, i, pos, r0) ==
    IF prev.err # NoErr /\ i <= Len(choices)
    THEN backwardChoiceLoop(
             makeBackwardGroupHandler(
                 SetTopCap(SetTopChildren(prev.r, TopNode(r0).Children), TopNode(r0).Cap),
                 choices[i], pos),
             choices, i + 1, pos, r0)
    ELSE prev

makeBackwardRHSHandler(r, rhs, pos) ==
    IF Len(rhs) = 1
    THEN makeBackwardGroupHandler(r, rhs[1], pos)
    ELSE backwardChoiceLoop(makeBackwardGroupHandler(r, rhs[1], pos), rhs, 2, pos, r)

\* the body of the loop of makeBackwardGroupHandler after handler i returned h
backwardGroupStep(terms, i, pos, ww, h) ==
    IF h.err # NoErr
    THEN Ret(ww, h.err, h.r)
    ELSE backwardGroupLoop(h.r, terms, i + 1, pos, ww + h.w)

\* the loop of the closure of makeBackwardGroupHandler: hh holds the terms'
\* handlers last term first, so the i-th handler run is terms[Len(terms)+1-i]
backwardGroupLoop(r, terms, i, pos, ww) ==
    IF i > Len(terms)
    THEN Ret(ww, NoErr, r)
    ELSE backwardGroupStep(terms, i, pos, ww,
             makeBackwardTermHandler(r, terms[Len(terms) + 1 - i], pos - ww))

makeBackwardGroupHandler(r, terms, pos) ==
    IF Len(terms) = 1
    THEN makeBackwardTermHandler(r, terms[1], pos)
    ELSE backwardGroupLoop(r, terms, 1, pos, 0)

\* the closure of makeBackwardCaptureHandler after the captured RHS returned h
backwardCaptureReturn(r, pos, h) ==
    IF h.err # NoErr
    THEN Ret(h.w, h.err, h.r)
    ELSE LET r1 == [h.r EXCEPT !.nodeStack[Len(h.r.nodeStack)].Text =
                                   Slice(r.Source, pos - h.w, pos)]
         IN  Ret(h.w, NoErr, SetTopCap(r1, <<pos - h.w, h.w>>))

makeBackwardCaptureHandler(r, rhs, pos) ==
    backwardCaptureReturn(r, pos, makeBackwardRHSHandler(r, rhs, pos))

\* one iteration of the backward for loop after the term returned h
backwardStarStep(r, term, pos, ww, save, h) ==
    IF h.err = NoErr /\ h.w > 0
    THEN backwardStarLoop(h.r, term, pos, ww + h.w, TopNode(h.r).Children)
    ELSE Ret(ww, h.err, SetTopCap(SetTopChildren(h.r, save), TopNode(r).Cap))

\* the for loop of makeBackwardStarHandler and makeBackwardPlusHandler
backwardStarLoop(r, term, pos, ww, save) ==
    backwardStarStep(r, term, pos, ww, save, makeBackwardTermHandler(r, term, pos - ww))

\* the return of both closures once the loop ended with l
backwardStarReturn(l) == Ret(l.w, NoErr, l.r)

makeBackwardStarHandler(r, term, pos) ==
    starEvent("backward", r, term, pos,
              backwardStarReturn(backwardStarLoop(r, term, pos, 0, TopNode(r).Children)))

\* the closure of makeBackwardPlusHandler after the first run returned h
backwardPlusFirst(term, pos, h) ==
    IF h.err # NoErr
    THEN Ret(h.w, h.err, h.r)
    ELSE backwardStarReturn(backwardStarLoop(h.r, term, pos, h.w, TopNode(h.r).Children))

makeBackwardPlusHandler(r, term, pos) ==
    backwardPlusFirst(term, pos, makeBackwardTermHandler(r, term, pos))

makeBackwardQuestionHandler(r, term, pos) ==
    questionDone(r, pos, makeBackwardTermHandler(r, term, pos))

makeBackwardSpecialHandler(r, special, pos) ==
    CASE special.rune = "*" -> makeBackwardStarHandler(r, special.term, pos)
      [] special.rune = "?" -> makeBackwardQuestionHandler(r, special.term, pos)
      [] special.rune = "+" -> makeBackwardPlusHandler(r, special.term, pos)

makeBackwardPredicateHandler(r, term, positive, pos) ==
    predicateDone(r, positive, pos, makeBackwardTermHandler(r, term, pos))

makeBackwardRuleHandler(r, name, pos) == backwardApply(r, name, pos)

makeBackwardTermHandler(r, term, pos) ==
    OnPath(CASE term.kind = "Parens" -> makeBackwardRHSHandler(r, term.rhs, pos)
             [] term.kind = "NegPred" -> makeBackwardPredicateHandler(r, term.term, FALSE, pos)
             [] term.kind = "Pred" -> makeBackwardPredicateHandler(r, term.term, TRUE, pos)
             [] term.kind = "Special" -> makeBackwardSpecialHandler(r, term, pos)
             [] term.kind = "Capture" -> makeBackwardCaptureHandler(r, term.rhs, pos)
             [] term.kind = "CharClass" -> makeBackwardCharClassHandler(r, term, pos)
             [] term.kind = "Literal" -> makeBackwardLiteralHandler(r, term.lit, pos)
             [] term.kind = "Ident" -> makeBackwardRuleHandler(r, term.ident, pos),
           r)

\* a variant of reverse that shifts the root only and leaves its subtree alone
reverseRootOnly(memo, key) ==
    [memo EXCEPT ![key].Pos = @ - memo[key].Len]

RECURSIVE reverse(_, _)
RECURSIVE reverseChildren(_, _, _)

\* the loop "for i := range n.Children { reverse(n.Children[i]) }" on the heap
reverseChildren(memo, children, i) ==
    IF i > Len(children)
    THEN memo
    ELSE reverseChildren(reverse(memo, children[i]), children, i + 1)

\* reverse(n) for the node stored under key: the heap after the call
reverse(memo, key) ==
    LET m1 == [memo EXCEPT ![key].Pos = @ - memo[key].Len]
        ch == m1[key].Children
        l  == Len(ch)
    IN  IF l = 0
        THEN m1
        ELSE LET m2 == reverseChildren(m1, ch, 1)
                 now == m2[key].Children
             IN  [m2 EXCEPT ![key].Children = [i \in 1..l |-> now[l + 1 - i]]]

\* the checks of ParseBackward on the start rule's (w, err), then reverse
AcceptBackward(g, input, a) ==
    IF a.r.overflow # <<>>
    THEN [result |-> a.r.overflow[1], err |-> "stack overflow"]
    ELSE IF a.err # NoErr
    THEN [result |-> a.r, err |-> a.err]
    ELSE IF a.w # Len(input) /\ ~g.IgnoreUnconsumedTail
    THEN [result |-> a.r, err |-> "remain unconsumed"]
    ELSE IF a.r.Tree = NoTree
    THEN [result |-> NilResult, err |-> "no syntax tree"]
    ELSE [result |-> [a.r EXCEPT !.memo = reverse(a.r.memo, a.r.Tree)],
          err |-> NoErr]

\* Grammar.ParseBackward
ParseBackward(g, input) ==
    IF Len(RuleNames(g)) = 0
    THEN [result |-> NilResult, err |-> "grammar without rules"]
    ELSE LET topRule == RuleNames(g)[1] IN
         IF topRule \notin DOMAIN GrammarSources[g.src].Rules
         THEN [result |-> NilResult, err |-> "missing top rule"]
         ELSE AcceptBackward(g, input,
                             backwardApply(NewResult(g, input), topRule, Len(input)))

(***************************************************************************)
(* Content annotator and reconstruction                                    *)
(***************************************************************************)
RECURSIVE countRowColNoReset(_, _, _)
\* a variant of countRowCol that keeps counting columns across a newline
countRowColNoReset(s, row, col) ==
    IF Len(s) = 0
    THEN <<row, col>>
    ELSE IF s[1] = NL
         THEN countRowColNoReset(Tail(s), row + 1, col + 1)
         ELSE countRowColNoReset(Tail(s), row, col + 1)

RECURSIVE countRowCol(_, _, _)
\* countRowCol: the (row, col) after the bytes of s
countRowCol(s, row, col) ==
    IF Len(s) = 0
    THEN <<row, col>>
    ELSE IF s[1] = NL
         THEN countRowCol(Tail(s), row + 1, 0)
         ELSE countRowCol(Tail(s), row, col + 1)

\* s[i:j] panics unless 0 <= i <= j <= len(s)
SliceOK(s, i, j) == 0 <= i /\ i <= j /\ j <= Len(s)

RECURSIVE computeContent(_, _, _, _, _, _)
RECURSIVE contentLoop(_, _, _, _, _, _)

\* the loop over n.Children of computeContent; c carries the heap, the
\* running (row, col), the running pos, and whether a slice has panicked.
contentLoop(c, src, key, children, i, pos) ==
    IF c.panic
    THEN c
    ELSE IF i > Len(children)
    THEN LET n == c.memo[key] IN
         IF ~SliceOK(src, pos, n.Pos + n.Len)
         THEN [c EXCEPT !.panic = TRUE]
         ELSE LET piece == Slice(src, pos, n.Pos + n.Len)
                  rc == countRowCol(piece, c.row, c.col)
              IN  [c EXCEPT !.memo[key].Content = Append(@, piece),
                            !.row = rc[1], !.col = rc[2]]
    ELSE LET ch == c.memo[children[i]] IN
         IF ~SliceOK(src, pos, ch.Pos)
         THEN [c EXCEPT !.panic = TRUE]
         ELSE LET piece == Slice(src, pos, ch.Pos)
                  rc == countRowCol(piece, c.row, c.col)
                  c1 == [c EXCEPT !.memo[key].Content = Append(@, piece)]
                  c2 == computeContent(c1, src, children[i], ch.Pos, rc[1], rc[2])
                  ch2 == c2.memo[children[i]]
              IN  contentLoop(c2, src, key, children, i + 1, ch2.Pos + ch2.Len)

\* Result.computeContent
computeContent(c, src, key, pos, row, col) ==
    LET n == c.memo[key] IN
    IF c.panic \/ ~SliceOK(src, pos, n.Pos)
    THEN [c EXCEPT !.panic = TRUE]
    ELSE LET rc == countRowCol(Slice(src, pos, n.Pos), row, col)
             c1 == [c EXCEPT !.memo[key].Row = rc[1], !.memo[key].Col = rc[2],
                             !.row = rc[1], !.col = rc[2]]
         IN  contentLoop(c1, src, key, n.Children, 1, n.Pos)

\* Result.ComputeContent
ComputeContent(r) ==
    computeContent([memo |-> r.memo, row |-> 1, col |-> 0, panic |-> FALSE],
                   r.Source, r.Tree, 0, 1, 0)

RECURSIVE reconstructContent(_, _, _)
RECURSIVE reconstructLoop(_, _, _, _)

\* the loop over n.Children of reconstructContent; a child's error is dropped
reconstructLoop(memo, key, i, buf) ==
    LET n == memo[key] IN
    IF i > Len(n.Children)
    THEN buf \o n.Content[Len(n.Children) + 1]
    ELSE reconstructLoop(memo, key, i + 1,
                         reconstructContent(memo, n.Children[i], buf \o n.Content[i]).buf)

\* Node.reconstructContent
reconstructContent(memo, key, buf) ==
    LET n == memo[key] IN
    IF Len(n.Content) = 0
    THEN [buf |-> buf, err |-> "empty content"]
    ELSE IF Len(n.Content) # Len(n.Children) + 1
    THEN [buf |-> buf, err |-> "broken content"]
    ELSE [buf |-> reconstructLoop(memo, key, 1, buf), err |-> NoErr]

\* Node.ReconstructContent
ReconstructContent(memo, key) ==
    LET x == reconstructContent(memo, key, <<>>) IN
    IF x.err # NoErr THEN [s |-> <<>>, err |-> x.err] ELSE [s |-> x.buf, err |-> NoErr]

(***************************************************************************)
(* Construct (construct.go): the semantic constructor and its accessor.    *)
(* A value is a record of its dynamic type and its payload; a type is the  *)
(* sequence of its constructors, so []string is <<"[]", "string">>.  The   *)
(* payload of a slice is the sequence of the payloads of its elements.     *)
(***************************************************************************)
MaxKids == 3

\* the nil interface value
Nil == [ty |-> <<"nil">>, v |-> <<>>]
IsNil(x) == x.ty = <<"nil">>

\* reflect.SliceOf(t)
SliceOf(t) == <<"[]">> \o t

\* t.Kind() == reflect.Slice
IsSliceType(t) == t[1] = "[]"

\* a value of the named non-slice type
Scalar(t, x) == [ty |-> <<t>>, v |-> x]

\* []t{}
EmptySlice(t) == [ty |-> SliceOf(<<t>>), v |-> <<>>]

\* a parser.Node as Construct sees it
CNode(label, id, children) == [Label |-> label, Id |-> id, Children |-> children]

\* &accessor{node: n, children: make(map), accessed: make(map), options: options}
NewAccessor(n, options) ==
    [node |-> n, children |-> [k \in {} |-> Nil], accessed |-> {}, errs |-> <<>>,
     options |-> options]

\* what a getter hands back: the accessor after the call, the value, the error
Got(ca, val, err) == [ca |-> ca, val |-> val, err |-> err]

\* accessor.GetString
GetString(ca, name) ==
    LET ca1 == [ca EXCEPT !.accessed = @ \cup {name}] IN
    IF name \notin DOMAIN ca.children
    THEN Got(ca1, Scalar("string", 0), "got none")
    ELSE IF ca.children[name].ty # <<"string">>
    THEN Got(ca1, Scalar("string", 0), "not a string")
    ELSE Got(ca1, ca.children[name], NoErr)

\* accessor.GetTyped; reflect.Append panics when the value is not assignable
\* to the element type of the slice
GetTyped(ca, name, ty) ==
    LET ca1 == [ca EXCEPT !.accessed = @ \cup {name}] IN
    IF name \notin DOMAIN ca.children
    THEN IF IsNil(ty) THEN Got(ca1, Nil, NoErr)
         ELSE IF IsSliceType(ty.ty) THEN Got(ca1, ty, NoErr)
         ELSE Got(ca1, ty, "got none")
    ELSE LET val == ca.children[name] IN
         IF IsNil(ty) THEN Got(ca1, val, NoErr)
         ELSE IF val.ty = ty.ty THEN Got(ca1, val, NoErr)
         ELSE IF ty.ty = SliceOf(val.ty)
         THEN Got(ca1, [ty |-> SliceOf(val.ty), v |-> <<val.v>>], NoErr)
         ELSE IF IsSliceType(ty.ty) /\ IsSliceType(val.ty)
         THEN IF Len(val.v) > 0 /\ Tail(ty.ty) # Tail(val.ty)
              THEN Got(ca1, Nil, "panic")
              ELSE Got(ca1, [ty |-> ty.ty, v |-> val.v], NoErr)
         ELSE IF IsSliceType(ty.ty)
         THEN Got(ca1, Nil, "panic")
         ELSE Got(ca1, ty, "type mismatch")

\* the getters that record the error in the accessor and return the value
Recorded(g) ==
    IF g.err = NoErr \/ g.err = "panic"
    THEN g
    ELSE Got([g.ca EXCEPT !.errs = Append(@, g.err)], g.val, NoErr)

\* accessor.String
String(ca, name) == Recorded(GetString(ca, name))

\* accessor.Get
Get(ca, name, ty) == Recorded(GetTyped(ca, name, ty))

\* a variant of Check that never reports an unused child
CheckLax(ca) ==
    IF Len(ca.errs) = 0 THEN NoErr ELSE "multiple errors"

\* accessor.Check
Check(ca) ==
    LET unused == IF ca.options = "on"
                  THEN {k \in DOMAIN ca.children : k \notin ca.accessed}
                  ELSE {}
    IN  IF Len(ca.errs) = 0 /\ unused = {} THEN NoErr ELSE "multiple errors"

\* one getter call of a callback
Query(fn, name, ty) == [fn |-> fn, name |-> name, ty |-> ty]

\* the getter calls that the callback makes for a Simple node, in order
Programs ==
    << << Query("Get", "A", EmptySlice("string")), Query("Get", "B", EmptySlice("string")) >>,
       << Query("Get", "A", EmptySlice("string")) >>,
       << >>,
       << Query("Get", "B", EmptySlice("string")), Query("GetString", "A", Nil) >>,
       << Query("GetTyped", "A", Nil), Query("String", "B", Nil) >>,
       << Query("Get", "A", EmptySlice("int")), Query("Get", "B", Scalar("string", 0)) >>,
       << Query("Get", "A", EmptySlice("string")), Query("Get", "B", EmptySlice("string")),
          Query("Get", "_", Nil) >>,
       << Query("GetTyped", "B", EmptySlice("string")), Query("Get", "A", Scalar("string", 0)) >> >>

\* the getter of one query applied to the accessor
RunQuery(ca, q) ==
    CASE q.fn = "Get" -> Get(ca, q.name, q.ty)
      [] q.fn = "GetTyped" -> GetTyped(ca, q.name, q.ty)
      [] q.fn = "String" -> String(ca, q.name)
      [] q.fn = "GetString" -> GetString(ca, q.name)

RECURSIVE runQueries(_, _, _, _)
\* a callback returns the error of GetTyped and GetString to its caller
queryStep(qs, i, got, g) ==
    IF g.err # NoErr
    THEN [ca |-> g.ca, err |-> g.err, got |-> Append(got, [q |-> qs[i], val |-> g.val, err |-> g.err])]
    ELSE runQueries(g.ca, qs, i + 1, Append(got, [q |-> qs[i], val |-> g.val, err |-> g.err]))

\* the getter calls of the callback from the i-th on
runQueries(ca, qs, i, got) ==
    IF i > Len(qs)
    THEN [ca |-> ca, err |-> NoErr, got |-> got]
    ELSE queryStep(qs, i, got, RunQuery(ca, qs[i]))

\* what a callback returns: the value, the error, the accessor as it left it
\* and (ghost) what the getters returned to it
Called(val, err, ca, got) == [val |-> val, err |-> err, ca |-> ca, got |-> got]

\* the callback for "Simple" after its getter calls returned q
simpleReturn(n, q) ==
    IF q.err # NoErr
    THEN Called(Nil, q.err, q.ca, q.got)
    ELSE Called(Scalar("Simple", n.Id), NoErr, q.ca, q.got)

\* the callback for "Top": return ca.GetTyped("Simple", nil)
topReturn(g) == Called(g.val, g.err, g.ca, <<>>)

\* the value the callback returns for a node A: its text as a string, a
\* number, nothing, or a string for a node at an odd offset and a number for
\* one at an even offset
ValueOfA(cb, n) ==
    CASE cb.retA = "string" -> Scalar("string", n.Id)
      [] cb.retA = "int" -> Scalar("int", n.Id)
      [] cb.retA = "nil" -> Nil
      [] cb.retA = "mixed" -> IF n.Id % 2 = 1 THEN Scalar("string", n.Id)
                              ELSE Scalar("int", n.Id)

\* the user's callback: cb says what it returns for A and which getters it
\* calls for Simple
callback(cb, label, ca) ==
    CASE label = "Simple" -> simpleReturn(ca.node, runQueries(ca, Programs[cb.program], 1, <<>>))
      [] label = "Top" -> topReturn(GetTyped(ca, "Simple", Nil))
      [] label = "A" -> Called(ValueOfA(cb, ca.node), NoErr, ca, <<>>)
      [] label = "B" -> Called(Scalar("string", ca.node.Id), NoErr, ca, <<>>)
      [] label = "_" -> Called(Nil, NoErr, ca, <<>>)
      [] OTHER -> Called(Nil, "unexpected label", ca, <<>>)

\* what Construct returns: the value, the error, and (ghost) for every node
\* whose callback ran, the accessor it was given and what its getters returned
Built(val, err, seen) == [val |-> val, err |-> err, seen |-> seen]

\* a variant of constructStore that keeps the latest value of a label
constructStoreLatest(ca, label, val) ==
    [ca |-> [ca EXCEPT !.children = (label :> val) @@ @], err |-> NoErr]

\* the body of the loop of Construct for a child that yielded val
constructStore(ca, label, val) ==
    IF label \notin DOMAIN ca.children
    THEN [ca |-> [ca EXCEPT !.children = (label :> val) @@ @], err |-> NoErr]
    ELSE LET have == ca.children[label] IN
         IF have.ty = val.ty
         THEN [ca |-> [ca EXCEPT !.children[label] =
                          [ty |-> SliceOf(have.ty), v |-> <<have.v, val.v>>]],
               err |-> NoErr]
         ELSE IF have.ty = SliceOf(val.ty)
         THEN [ca |-> [ca EXCEPT !.children[label] =
                          [ty |-> have.ty, v |-> Append(have.v, val.v)]],
               err |-> NoErr]
         ELSE [ca |-> ca, err |-> "incompatible types"]

RECURSIVE Construct(_, _, _)
RECURSIVE constructLoop(_, _, _, _, _)

\* Construct after the callback returned c
constructReturn(seen, c) ==
    LET entry == [node |-> c.ca.node.Id, label |-> c.ca.node.Label,
                  children |-> c.ca.children, accessed |-> c.ca.accessed,
                  errs |-> c.ca.errs, got |-> c.got, err |-> c.err]
    IN  IF c.err # NoErr
        THEN Built(Nil, c.err, Append(seen, entry))
        ELSE IF Check(c.ca) # NoErr
        THEN Built(Nil, Check(c.ca), Append(seen, entry))
        ELSE Built(c.val, NoErr, Append(seen, entry))

\* the loop of Construct after the child's value was stored
constructStored(n, i, cb, seen, st) ==
    IF st.err # NoErr
    THEN Built(Nil, st.err, seen)
    ELSE constructLoop(st.ca, n, i + 1, cb, seen)

\* the loop of Construct after Construct of the i-th child returned sub
constructStep(ca, n, i, cb, seen, sub) ==
    IF sub.err # NoErr
    THEN Built(Nil, sub.err, seen \o sub.seen)
    ELSE IF IsNil(sub.val)
    THEN constructLoop(ca, n, i + 1, cb, seen \o sub.seen)
    ELSE constructStored(n, i, cb, seen \o sub.seen,
                         constructStore(ca, n.Children[i].Label, sub.val))

\* the loop of Construct over n.Children from the i-th on, then the callback
constructLoop(ca, n, i, cb, seen) ==
    IF i > Len(n.Children)
    THEN constructReturn(seen, callback(cb, n.Label, ca))
    ELSE constructStep(ca, n, i, cb, seen, Construct(n.Children[i], cb, ca.options))

\* Construct(n, callback, options)
Construct(n, cb, options) ==
    constructLoop(NewAccessor(n, options), n, 1, cb, <<>>)

\* the trees that are constructed: a Simple node over up to MaxKids leaves
\* labelled A, B or _, alone or under a Top node
KidLabels == {"A", "B", "_"}
KidRows == UNION {[1..k -> KidLabels] : k \in 0..MaxKids}
SimpleTree(row) == CNode("Simple", 10, [i \in DOMAIN row |-> CNode(row[i], i, <<>>)])
ConstructTrees ==
    {SimpleTree(row) : row \in KidRows}
        \cup {CNode("Top", 11, <<SimpleTree(row)>>) : row \in KidRows}
Callbacks == [retA : {"string", "int", "nil", "mixed"}, program : DOMAIN Programs]
AccessorOptions == {"nil", "off", "on"}

(***************************************************************************)
(* The grammar front-end of parser2.New.  A grammar source is a sequence   *)
(* of rules, the body of a rule a sequence of tokens; the syntax tree is   *)
(* the one the PEG grammar of PEG grammars gives for them.                 *)
(***************************************************************************)
MaxBody == 3
MaxRules == 2

Token(k, s) == [k |-> k, s |-> s]
Tokens ==
    {Token("Ident", "A"), Token("Ident", "B"), Token("Literal", "a"), Token("Literal", "")}
        \cup {Token(k, "") : k \in {".", "*", "?", "+", "!", "&", "(", ")", "<", ">", "/"}}
Bodies == UNION {[1..n -> Tokens] : n \in 1..MaxBody}
RuleSource(name, body) == [name |-> name, body |-> body]

\* the sources: no rule, one rule with a body of up to MaxBody tokens, or
\* up to MaxRules rules of one token each
Sources ==
    {<<>>}
        \cup {<<RuleSource("A", b)>> : b \in Bodies}
        \cup UNION {[1..n -> {RuleSource(name, <<t>>) : name \in {"A", "B"}, t \in Tokens}] :
                        n \in 2..MaxRules}

\* a node of the syntax tree of a grammar source
SNode(label, text, children) == [Label |-> label, Text |-> text, Children |-> children]
TermNode(child) == SNode("Term", "", <<child>>)

\* a match up to (not including) token i with its node, or no match
Matched(i, node) == [ok |-> TRUE, i |-> i, node |-> node]
NoMatch == [ok |-> FALSE, i |-> 0, node |-> SNode("", "", <<>>)]

RECURSIVE parseTerm(_, _)
RECURSIVE parseTerms(_, _, _)
RECURSIVE parseChoices(_, _, _)

\* Parens <- _ '(' RHS _ ')' and Capture <- _ '<' RHS _ '>' after the RHS
closeWith(t, close, label, r) ==
    IF r.ok /\ r.i <= Len(t) /\ t[r.i].k = close
    THEN Matched(r.i + 1, TermNode(SNode(label, "", <<r.node>>)))
    ELSE NoMatch

\* NegPred <- _ '!' Term and Pred <- _ '&' Term after the Term
prefixed(label, r) ==
    IF r.ok
    THEN Matched(r.i, TermNode(SNode(label, "", <<r.node>>)))
    ELSE NoMatch

\* Term <- Parens / NegPred / Pred / Capture / CharClass / Literal / Ident / Special
parseTerm(t, i) ==
    IF i > Len(t)
    THEN NoMatch
    ELSE CASE t[i].k = "(" -> closeWith(t, ")", "Parens", parseChoices(t, i + 1, <<>>))
           [] t[i].k = "!" -> prefixed("NegPred", parseTerm(t, i + 1))
           [] t[i].k = "&" -> prefixed("Pred", parseTerm(t, i + 1))
           [] t[i].k = "<" -> closeWith(t, ">", "Capture", parseChoices(t, i + 1, <<>>))
           [] t[i].k \in {"Literal", "Ident"} ->
                 Matched(i + 1, TermNode(SNode(t[i].k, t[i].s, <<>>)))
           [] t[i].k \in {".", "*", "?", "+"} ->
                 Matched(i + 1, TermNode(SNode("Special", t[i].k, <<>>)))
           [] OTHER -> NoMatch

\* Terms <- Term+ after the Term at i returned r
termsNext(t, i, acc, r) ==
    IF r.ok
    THEN parseTerms(t, r.i, Append(acc, r.node))
    ELSE IF Len(acc) = 0
    THEN NoMatch
    ELSE Matched(i, SNode("Terms", "", acc))

parseTerms(t, i, acc) == termsNext(t, i, acc, parseTerm(t, i))

\* RHS <- Terms ( _ '/' Terms )* after the Terms expected at or after i returned r
choicesNext(t, i, acc, r) ==
    IF r.ok
    THEN parseChoices(t, r.i, Append(acc, r.node))
    ELSE IF Len(acc) = 0
    THEN NoMatch
    ELSE Matched(i, SNode("RHS", "", acc))

parseChoices(t, i, acc) ==
    IF Len(acc) = 0
    THEN choicesNext(t, i, acc, parseTerms(t, i, <<>>))
    ELSE IF i <= Len(t) /\ t[i].k = "/"
    THEN choicesNext(t, i, acc, parseTerms(t, i + 1, <<>>))
    ELSE Matched(i, SNode("RHS", "", acc))

\* Rule <- _ Ident _ '<' '-' RHS EndOfLine? after the RHS; what the RHS
\* leaves of the line is an unconsumed tail
ruleNode(rs, r) ==
    IF r.ok /\ r.i = Len(rs.body) + 1
    THEN Matched(r.i, SNode("Rule", "", <<SNode("Ident", rs.name, <<>>), r.node>>))
    ELSE NoMatch

parseRule(rs) == ruleNode(rs, parseChoices(rs.body, 1, <<>>))

\* parse(source): Grammar <- Rule+ _
grammarNode(rules) ==
    IF Len(rules) = 0 \/ \E i \in DOMAIN rules : ~rules[i].ok
    THEN NoMatch
    ELSE Matched(0, SNode("Grammar", "", [i \in DOMAIN rules |-> rules[i].node]))

parse(source) == grammarNode([i \in DOMAIN source |-> parseRule(source[i])])

\* the Term of a Special, not set yet
NilTerm == [kind |-> "nil"]

\* &Term{}: no variant set
EmptyTerm == [kind |-> "none"]

\* the text of a literal between its quotes
Unquoted(s) == IF s = "" THEN <<>> ELSE <<s>>

\* a value with the error of its construction
Val(val, err) == [val |-> val, err |-> err]

\* (ghost) a value with the calls of the callback for "Terms" that led to it
Seen(v, seen) == [val |-> v.val, err |-> v.err, seen |-> seen]

\* callback, case "Terms": the postfix Specials take the term before them
RECURSIVE callbackTerms(_, _)
callbackTerms(terms, i) ==
    IF i > Len(terms)
    THEN Val(terms, NoErr)
    ELSE IF terms[i].kind # "Special"
    THEN callbackTerms(terms, i + 1)
    ELSE IF i = 1
    THEN Val(<<>>, "Special character cannot be first in the rule")
    ELSE callbackTerms(SubSeq(terms, 1, i - 2)
                           \o <<Special(terms[i - 1], terms[i].rune)>>
                           \o SubSeq(terms, i + 1, Len(terms)),
                       i)

RECURSIVE convertTerm(_)
RECURSIVE convertTerms(_, _, _, _)
RECURSIVE convertRHS(_, _, _, _)

\* callback, case "Term", for a child with the value v
callbackTerm(label, v) ==
    IF v.err # NoErr
    THEN v
    ELSE Seen(Val(CASE label = "Parens" -> Parens(v.val)
                    [] label = "Capture" -> Capture(v.val)
                    [] label = "NegPred" -> NegPred(v.val)
                    [] label = "Pred" -> Pred(v.val),
                  NoErr), v.seen)

\* Construct on a Term node: the child first, then the callback
convertTerm(n) ==
    CASE n.Children[1].Label \in {"Parens", "Capture"} ->
             callbackTerm(n.Children[1].Label,
                          convertRHS(n.Children[1].Children[1], 1, <<>>, <<>>))
      [] n.Children[1].Label \in {"NegPred", "Pred"} ->
             callbackTerm(n.Children[1].Label, convertTerm(n.Children[1].Children[1]))
      [] n.Children[1].Label = "Literal" ->
             Seen(Val(IF n.Children[1].Text = "" THEN EmptyTerm
                      ELSE Literal(Unquoted(n.Children[1].Text)), NoErr), <<>>)
      [] n.Children[1].Label = "Ident" ->
             Seen(Val(Ident(n.Children[1].Text), NoErr), <<>>)
      [] n.Children[1].Label = "Special" ->
             Seen(Val(IF n.Children[1].Text = "." THEN Dot
                      ELSE Special(NilTerm, n.Children[1].Text), NoErr), <<>>)

\* (ghost) the callback for "Terms" with its call recorded
termsCalled(terms, seen, out) ==
    Seen(out, Append(seen, [terms |-> terms, out |-> out.val, err |-> out.err]))

\* Construct on a Terms node after its i-th child returned v
termsStep(n, i, acc, seen, v) ==
    IF v.err # NoErr
    THEN Seen(v, seen \o v.seen)
    ELSE convertTerms(n, i + 1, Append(acc, v.val), seen \o v.seen)

convertTerms(n, i, acc, seen) ==
    IF i > Len(n.Children)
    THEN termsCalled(acc, seen, callbackTerms(acc, 1))
    ELSE termsStep(n, i, acc, seen, convertTerm(n.Children[i]))

\* Construct on an RHS node after its i-th child returned v
rhsStep(n, i, acc, seen, v) ==
    IF v.err # NoErr
    THEN Seen(v, seen \o v.seen)
    ELSE convertRHS(n, i + 1, Append(acc, v.val), seen \o v.seen)

\* callback, case "RHS": the alternatives in order
convertRHS(n, i, acc, seen) ==
    IF i > Len(n.Children)
    THEN Seen(Val(acc, NoErr), seen)
    ELSE rhsStep(n, i, acc, seen, convertTerms(n.Children[i], 1, <<>>, <<>>))

\* callback, case "Rule"
callbackRule(n, v) ==
    IF v.err # NoErr
    THEN v
    ELSE Seen(Val([Ident |-> n.Children[1].Text, RHS |-> v.val], NoErr), v.seen)

convertRule(n) == callbackRule(n, convertRHS(n.Children[2], 1, <<>>, <<>>))

NoGrammar == [RuleNames |-> <<>>, Rules |-> [k \in {} |-> <<>>]]

\* callback, case "Grammar": the loop over the rules
RECURSIVE callbackGrammar(_, _, _)
callbackGrammar(rules, i, g) ==
    IF i > Len(rules)
    THEN Val(g, NoErr)
    ELSE IF rules[i].Ident \in DOMAIN g.Rules
    THEN Val(NoGrammar, "rule is duplicated")
    ELSE callbackGrammar(rules, i + 1,
                         [RuleNames |-> Append(g.RuleNames, rules[i].Ident),
                          Rules |-> (rules[i].Ident :> rules[i].RHS) @@ g.Rules])

\* Construct on the Grammar node after its i-th child returned v
RECURSIVE convertRules(_, _, _, _)
rulesStep(n, i, acc, seen, v) ==
    IF v.err # NoErr
    THEN Seen(Val(NoGrammar, v.err), seen \o v.seen)
    ELSE convertRules(n, i + 1, Append(acc, v.val), seen \o v.seen)

convertRules(n, i, acc, seen) ==
    IF i > Len(n.Children)
    THEN Seen(callbackGrammar(acc, 1, NoGrammar), seen)
    ELSE rulesStep(n, i, acc, seen, convertRule(n.Children[i]))

\* convert(result.Tree)
convert(n) == convertRules(n, 1, <<>>, <<>>)

\* what building the handler of a term ends in: "ok", the error of
\* makeRuleHandler, the nil dereference of makeTermHandler(special.Term), or
\* log.Exitf of makeTermHandler
RECURSIVE buildTerm(_, _)
RECURSIVE buildGroup(_, _, _)
RECURSIVE buildRHS(_, _, _)

buildTerm(g, term) ==
    CASE term.kind = "nil" -> "panic"
      [] term.kind \in {"Parens", "Capture"} -> buildRHS(g, term.rhs, 1)
      [] term.kind \in {"NegPred", "Pred", "Special"} -> buildTerm(g, term.term)
      [] term.kind \in {"CharClass", "Literal"} -> "ok"
      [] term.kind = "Ident" ->
            IF term.ident \in DOMAIN g.Rules THEN "ok" ELSE "unknown rule"
      [] OTHER -> "exit"

groupNext(g, terms, i, b) ==
    IF b # "ok" THEN b ELSE buildGroup(g, terms, i + 1)

\* makeGroupHandler: the handlers of the terms in order
buildGroup(g, terms, i) ==
    IF i > Len(terms)
    THEN "ok"
    ELSE groupNext(g, terms, i, buildTerm(g, terms[i]))

rhsNext(g, choices, i, b) ==
    IF b # "ok" THEN b ELSE buildRHS(g, choices, i + 1)

\* makeRHSHandler: the handlers of the alternatives in order
buildRHS(g, choices, i) ==
    IF i > Len(choices)
    THEN "ok"
    ELSE rhsNext(g, choices, i, buildGroup(g, choices[i], 1))

\* New: rule.handler, then rule.backwardHandler, which is built the same way
buildBoth(forward, backward) == IF forward # "ok" THEN forward ELSE backward

\* New: for _, rule := range grammar.Rules; order is the order of the map
\* iteration
RECURSIVE buildRules(_, _, _)
rulesNext(g, order, i, b) ==
    IF b # "ok" THEN b ELSE buildRules(g, order, i + 1)

buildRules(g, order, i) ==
    IF i > Len(order)
    THEN "ok"
    ELSE IF order[i] > Len(g.RuleNames)
    THEN buildRules(g, order, i + 1)
    ELSE rulesNext(g, order, i,
                   buildBoth(buildRHS(g, g.Rules[g.RuleNames[order[i]]], 1),
                             buildRHS(g, g.Rules[g.RuleNames[order[i]]], 1)))

\* what New returns, or how it ended otherwise: crash is "none", "panic" or "exit"
Returns(g, err, crash, seen) == [grammar |-> g, err |-> err, crash |-> crash, seen |-> seen]

newBuilt(c, b) ==
    CASE b = "ok" -> Returns(c.val, NoErr, "none", c.seen)
      [] b = "unknown rule" -> Returns(NoGrammar, b, "none", c.seen)
      [] OTHER -> Returns(NoGrammar, NoErr, b, c.seen)

newConverted(order, c) ==
    IF c.err # NoErr
    THEN Returns(NoGrammar, c.err, "none", c.seen)
    ELSE newBuilt(c, buildRules(c.val, order, 1))

newParsed(order, p) ==
    IF ~p.ok
    THEN Returns(NoGrammar, "could not parse grammar source", "none", <<>>)
    ELSE newConverted(order, convert(p.node))

\* New(source, nil)
New(source, order) == newParsed(order, parse(source))

\* the orders in which the map of the rules can be iterated
Orders == {o \in [1..MaxRules -> 1..MaxRules] : \A i, j \in 1..MaxRules : o[i] = o[j] => i = j}

(***************************************************************************)
(* Package charclass: Parse and CharClass.String.  A string is the         *)
(* sequence of its runes, each rune named by a string; RuneOrder lists the *)
(* runes that occur in ascending order of their code points.               *)
(***************************************************************************)
MaxClass == 4

\* \a, \b, - : [ \ ] ^ a b h l p
RuneOrder == <<"BEL", "BS", "-", ":", "[", "\\", "]", "^", "a", "b", "h", "l", "p">>
Rank(c) == CHOOSE i \in DOMAIN RuneOrder : RuneOrder[i] = c

\* the rune 0, which Parse uses for "no rune"
NoRune == "NUL"

ClassChars == {"a", "b", "-", "^", "[", "]", "\\"}
NamedAlpha == <<"[", ":", "a", "l", "p", "h", "a", ":", "]">>
NamedUnknown == <<"[", ":", "a", ":", "]">>

\* the strings given to Parse
ClassArgs ==
    UNION {[1..n -> ClassChars] : n \in 0..MaxClass}
        \cup {NamedAlpha, <<"^">> \o NamedAlpha, <<"^", "^">> \o NamedAlpha, NamedUnknown}

\* specialClasses, as far as the strings reach it
specialClasses == (NamedAlpha :> "IsLetter")

\* &CharClass{}
EmptyClass == [Map |-> {}, Ranges |-> <<>>, Negated |-> FALSE, Special |-> ""]

\* (*CharClass, error)
ClassRet(cc, err) == [cc |-> cc, err |-> err]

\* the escape at arg[i] = '\\' followed by another byte: the rune and its width
Unescape(arg, i) ==
    CASE arg[i + 1] \in {"^", "-", "[", "]"} -> [r |-> arg[i + 1], w |-> 2, err |-> NoErr]
      [] arg[i + 1] = "a" -> [r |-> "BEL", w |-> 2, err |-> NoErr]
      [] arg[i + 1] = "b" -> [r |-> "BS", w |-> 2, err |-> NoErr]
      [] arg[i + 1] = "\\" -> [r |-> "\\", w |-> 2, err |-> NoErr]
      [] OTHER -> [r |-> NoRune, w |-> 0, err |-> "error parsing escape"]

\* the rune at arg[i] with its escape resolved
RuneAt(arg, i) ==
    IF arg[i] = "\\" /\ i + 1 <= Len(arg)
    THEN Unescape(arg, i)
    ELSE [r |-> arg[i], w |-> 1, err |-> NoErr]

\* ret.Map[last] = true unless last is 0
WithLast(ret, last) ==
    IF last = NoRune THEN ret ELSE [ret EXCEPT !.Map = @ \cup {last}]

\* sort.Slice of the ranges by Lo, as an insertion into a sorted sequence
RECURSIVE SortByLo(_)
InsertByLo(r, s) ==
    LET before == SelectSeq(s, LAMBDA x : Rank(x[1]) < Rank(r[1]))
        after == SelectSeq(s, LAMBDA x : Rank(x[1]) >= Rank(r[1]))
    IN  before \o <<r>> \o after

SortByLo(s) == IF Len(s) = 0 THEN s ELSE InsertByLo(s[1], SortByLo(Tail(s)))

\* the loop of Parse over the runes of a class that is not named; i is the
\* offset of the next rune plus one
RECURSIVE classLoop(_, _, _, _, _)
classRune(arg, i, last, start, ret, e) ==
    IF e.err # NoErr
    THEN ClassRet(EmptyClass, e.err)
    ELSE IF start # NoRune
    THEN IF Rank(e.r) <= Rank(start)
         THEN ClassRet(EmptyClass, "invalid interval")
         ELSE classLoop(arg, i + e.w, NoRune, NoRune,
                        [ret EXCEPT !.Ranges = Append(@, <<start, e.r>>)])
    ELSE classLoop(arg, i + e.w, e.r, start, WithLast(ret, last))

classLoop(arg, i, last, start, ret) ==
    IF i > Len(arg)
    THEN ClassRet([WithLast(ret, last) EXCEPT !.Ranges = SortByLo(@)], NoErr)
    ELSE IF arg[i] = "-" /\ i # 1 /\ i # Len(arg)
    THEN classLoop(arg, i + 1, NoRune, last, ret)
    ELSE classRune(arg, i, last, start, ret, RuneAt(arg, i))

\* the number of '^' that arg starts with
RECURSIVE Carets(_)
Carets(arg) == IF Len(arg) > 0 /\ arg[1] = "^" THEN 1 + Carets(Tail(arg)) ELSE 0

\* Parse of "^..." after Parse(arg[1:]) returned r
negated(skip, r) ==
    IF r.err # NoErr
    THEN r
    ELSE ClassRet([r.cc EXCEPT !.Negated = TRUE,
                               !.Map = IF skip > 1 THEN @ \cup {"^"} ELSE @], NoErr)

\* charclass.Parse
RECURSIVE charclassParse(_)
charclassParse(arg) ==
    IF Len(arg) = 0
    THEN ClassRet(EmptyClass, "empty char class")
    ELSE IF arg[1] = "^"
    THEN IF Len(arg) = 1
         THEN ClassRet([EmptyClass EXCEPT !.Map = {"^"}], NoErr)
         ELSE negated(Carets(arg), charclassParse(Tail(arg)))
    ELSE IF arg[1] = "[" /\ arg[Len(arg)] = "]"
    THEN IF arg \in DOMAIN specialClasses
         THEN ClassRet([EmptyClass EXCEPT !.Special = specialClasses[arg]], NoErr)
         ELSE ClassRet(EmptyClass, "unknown char class")
    ELSE classLoop(arg, 1, NoRune, NoRune, EmptyClass)

\* runeToString: strconv.QuoteRune without its quotes
runeToString(c) ==
    CASE c = "BEL" -> <<"\\", "a">>
      [] c = "BS" -> <<"\\", "b">>
      [] c = "\\" -> <<"\\", "\\">>
      [] OTHER -> <<c>>

\* sort.Ints(runes), each rune printed
RECURSIVE printRunes(_)
printRunes(runes) ==
    IF runes = {}
    THEN <<>>
    ELSE LET c == CHOOSE x \in runes : \A y \in runes : Rank(x) <= Rank(y) IN
         (IF c = "]" THEN <<"\\", "]">> ELSE runeToString(c)) \o printRunes(runes \ {c})

\* the ranges printed as Lo-Hi
RECURSIVE printRanges(_)
printRanges(ranges) ==
    IF Len(ranges) = 0
    THEN <<>>
    ELSE runeToString(ranges[1][1]) \o <<"-">> \o runeToString(ranges[1][2])
             \o printRanges(Tail(ranges))

\* CharClass.String
charclassString(cc) ==
    IF cc.Special # ""
    THEN CHOOSE k \in DOMAIN specialClasses : specialClasses[k] = cc.Special
    ELSE (IF cc.Negated THEN <<"^">> ELSE <<>>)
             \o printRunes(cc.Map \ {"-", "^"})
             \o printRanges(cc.Ranges)
             \o (IF "^" \in cc.Map THEN <<"^">> ELSE <<>>)
             \o (IF "-" \in cc.Map THEN <<"-">> ELSE <<>>)

(***************************************************************************)
(* Package parser, one goroutine: createRule, the handlers, Result.apply   *)
(* and Result.Attach, for the grammars                                     *)
(*     Top <- 'b'? A 'b'?  ;  A <- body  ;  B <- < 'c'? >                  *)
(* where body is a sequence of the tokens  <  >  'a'  ?  B.                *)
(* Positions are byte offsets from 0, as in the code.                      *)
(***************************************************************************)
MaxRhs == 4
MaxSource == 3

DynChars == {"a", "b", "c"}
DynSources == UNION {[1..n -> DynChars] : n \in 0..MaxSource}

\* the literal tokens and the strings they stand for
LiteralTokens == ("'a'" :> <<"a">>) @@ ("'b'" :> <<"b">>) @@ ("'c'" :> <<"c">>)
RuleTokens == {"A", "B"}
BodyTokens == {"<", ">", "'a'", "?", "B"}

\* a handler: newLiteralHandler(lit), newCaptureHandler(start) or
\* newRuleHandler(name), wrapped by newQuestionHandler when opt
Handler(kind, lit, name, opt) == [kind |-> kind, lit |-> lit, name |-> name, opt |-> opt]

Created(handlers, captureCount, err) ==
    [handlers |-> handlers, captureCount |-> captureCount, err |-> err]

\* createRule: the loop over the tokens of rhs
RECURSIVE createRule(_, _, _)
createRule(rhs, i, c) ==
    IF c.err # NoErr \/ i > Len(rhs)
    THEN c
    ELSE createRule(rhs, i + 1,
        CASE rhs[i] \in DOMAIN LiteralTokens ->
                 [c EXCEPT !.handlers = Append(@, Handler("literal", LiteralTokens[rhs[i]], "", FALSE))]
          [] rhs[i] = "<" ->
                 IF c.captureCount = 1 THEN [c EXCEPT !.err = "capture already started"]
                 ELSE IF c.captureCount = 2 THEN [c EXCEPT !.err = "only one capture group allowed"]
                 ELSE [c EXCEPT !.captureCount = 1,
                                !.handlers = Append(@, Handler("captureStart", <<>>, "", FALSE))]
          [] rhs[i] = ">" ->
                 IF c.captureCount = 0 THEN [c EXCEPT !.err = "capture not started"]
                 ELSE IF c.captureCount = 2 THEN [c EXCEPT !.err = "capture already ended"]
                 ELSE [c EXCEPT !.captureCount = 2,
                                !.handlers = Append(@, Handler("captureEnd", <<>>, "", FALSE))]
          [] rhs[i] = "?" ->
                 IF Len(c.handlers) = 0
                 THEN [c EXCEPT !.err = "'?' needs an expr before it, none found"]
                 ELSE [c EXCEPT !.handlers[Len(c.handlers)].opt = TRUE]
          [] rhs[i] \in RuleTokens ->
                 [c EXCEPT !.handlers = Append(@, Handler("rule", <<>>, rhs[i], FALSE))])

CreateRule(rhs) == createRule(rhs, 1, Created(<<>>, 0, NoErr))

\* the bodies of A that createRule accepts
ABodies ==
    {rhs \in UNION {[1..n -> BodyTokens] : n \in 1..MaxRhs} : CreateRule(rhs).err = NoErr}

\* g.rules of the grammar whose rule A has the given body
DynRules(body) ==
    [Top |-> <<"'b'", "?", "A", "'b'", "?">>, A |-> body, B |-> <<"<", "'c'", "?", ">">>]

DynTopRule == "Top"

\* &Node{Label: ru.label, Pos: pos}
DynNode(label, pos, isTop) ==
    [Label |-> label, Pos |-> pos, Len |-> 0, Text |-> <<>>, Start |-> 0,
     Children |-> <<>>, Annotations |-> IF isTop THEN {"top"} ELSE {}, Err |-> NoErr]

NoNode == [Label |-> "nil"]

\* what a handler returns, with the Result as it left it
DynRet(r, w, err) == [r |-> r, w |-> w, err |-> err]

\* the node on top of r.NodeStack replaced by n
SetTop(r, n) == [r EXCEPT !.NodeStack[Len(r.NodeStack)] = n]

\* Result.Attach; the ghost field attached tells whether n was stored
dynAttach(r, n) ==
    IF n.Text = <<>> /\ n.Start = 0 /\ Len(n.Children) = 0 /\ n.Annotations = {}
    THEN [r EXCEPT !.attached = FALSE]
    ELSE IF Len(r.NodeStack) = 0
    THEN IF r.Tree # NoNode
         THEN [r EXCEPT !.exit = TRUE, !.attached = FALSE]
         ELSE [r EXCEPT !.Tree = n, !.attached = TRUE]
    ELSE [r EXCEPT !.NodeStack[Len(r.NodeStack)].Children = Append(@, n), !.attached = TRUE]

\* ghost: the successful application of a rule, and whether its node was stored
Applied(r, label, pos, n, cached) ==
    [r EXCEPT !.log = Append(@, [rule |-> label, pos |-> pos, node |-> n,
                                  attached |-> r.attached, cached |-> cached])]

newLiteralHandler(r, literal, pos) ==
    IF Len(r.Source) - pos < Len(literal)
    THEN DynRet(r, 0, "expecting")
    ELSE IF SubSeq(r.Source, pos + 1, pos + Len(literal)) # literal
    THEN DynRet(r, 0, "Expecting literal")
    ELSE DynRet(r, Len(literal), NoErr)

newCaptureHandler(r, start, pos) ==
    LET n == r.NodeStack[Len(r.NodeStack)] IN
    IF start
    THEN DynRet(SetTop(r, [n EXCEPT !.Start = pos]), 0, NoErr)
    ELSE DynRet(SetTop(r, [n EXCEPT !.Text = SubSeq(r.Source, n.Start + 1, pos),
                                    !.Start = 0]), 0, NoErr)

\* newQuestionHandler, after the handler it wraps returned ret
newQuestionHandler(opt, ret) ==
    IF opt /\ ret.err # NoErr THEN DynRet(ret.r, 0, NoErr) ELSE ret

RECURSIVE dynApply(_, _, _, _)
RECURSIVE dynHandlers(_, _, _, _, _, _)

\* one handler of a rule, called at pos
dynHandle(r, rules, h, pos) ==
    newQuestionHandler(h.opt,
        CASE h.kind = "literal" -> newLiteralHandler(r, h.lit, pos)
          [] h.kind = "captureStart" -> newCaptureHandler(r, TRUE, pos)
          [] h.kind = "captureEnd" -> newCaptureHandler(r, FALSE, pos)
          [] h.kind = "rule" -> dynApply(r, rules, h.name, pos))

\* Result.apply after the handler hh[i] returned ret
dynStep(rules, hh, i, pos, w, ret) ==
    IF ret.err # NoErr
    THEN DynRet(ret.r, w + ret.w, ret.err)
    ELSE dynHandlers(ret.r, rules, hh, i + 1, pos + ret.w, w + ret.w)

\* Result.apply: the loop over ru.handlers; the w returned on success is pos - n.Pos
dynHandlers(r, rules, hh, i, pos, w) ==
    IF i > Len(hh)
    THEN DynRet(r, w, NoErr)
    ELSE dynStep(rules, hh, i, pos, w, dynHandle(r, rules, hh[i], pos))

\* Result.apply after the loop: pop the node, memoize it, attach it on success
dynApplied(label, pos, ret) ==
    LET stack == ret.r.NodeStack
        n == [stack[Len(stack)] EXCEPT !.Len = ret.w, !.Err = ret.err]
        popped == [ret.r EXCEPT !.NodeStack = SubSeq(stack, 1, Len(stack) - 1),
                                !.Memo = (<<pos, label>> :> n) @@ @]
    IN  IF ret.err # NoErr
        THEN DynRet(popped, ret.w, ret.err)
        ELSE DynRet(Applied(dynAttach(popped, n), label, pos, n, FALSE), ret.w, NoErr)

\* Result.apply
dynApply(r, rules, label, pos) ==
    IF <<pos, label>> \in DOMAIN r.Memo
    THEN LET n == r.Memo[<<pos, label>>] IN
         IF n.Err = NoErr
         THEN DynRet(Applied(dynAttach(r, n), label, pos, n, TRUE), n.Len, NoErr)
         ELSE DynRet(r, n.Len, n.Err)
    ELSE dynApplied(label, pos,
             dynHandlers([r EXCEPT !.NodeStack = Append(@, DynNode(label, pos, label = DynTopRule))],
                         rules, CreateRule(rules[label]).handlers, 1, pos, 0))

\* the Result that grammar.Parse starts with
DynResult(source) ==
    [Source |-> source, Memo |-> <<>>, NodeStack |-> <<>>, Tree |-> NoNode,
     exit |-> FALSE, attached |-> FALSE, log |-> <<>>]

\* grammar.Parse after apply returned
dynParsed(source, ret) ==
    [r |-> ret.r,
     err |-> IF ret.err # NoErr THEN ret.err
             ELSE IF ret.w = 0 /\ Len(source) > 0 THEN "grammar matched 0 characters"
             ELSE IF ret.w # Len(source) THEN "some characters remain unconsumed"
             ELSE NoErr]

\* grammar.Parse
dynParse(rules, source) ==
    dynParsed(source, dynApply(DynResult(source), rules, DynTopRule, 0))

VARIABLES
    grammar,    \* the compiled grammar: its source and its ParserOptions
    input,      \* the string given to the parser
    pc,         \* "new", "parsed", "crashed", "content", "content again",
                \* "reconstructed", "reconstructed again"
    op,         \* the entry point that was called
    result,     \* the *Result it returned
    err,        \* the error it returned
    panicked,   \* ComputeContent ended in a slice-bounds panic
    got,        \* what ReconstructContent returned
    bootRu,     \* package parser: the variable ru of each newRuleHandler closure
    bootCached, \* package parser: the variable cached of each closure
    boot,       \* package parser: the goroutines parsing with the shared grammar
    conIn,      \* Construct: the tree, the callback and the options of the call
    conOut,     \* Construct: what the call returned
    conPc,      \* Construct: "off", "new", "done"
    source,     \* New: the grammar source
    made,       \* New: what the call returned, or how it ended
    newPc,      \* New: "off", "new", "done"
    classArg,   \* charclass: the string given to Parse
    classOut,   \* charclass: what Parse returned
    classStr,   \* charclass: what String returned
    classAgain, \* charclass: what Parse returned for classStr
    classPc,    \* charclass: "off", "new", "parsed", "printed", "reparsed"
    dynIn,      \* package parser, one goroutine: the body of rule A and the source
    dynOut,     \* package parser, one goroutine: what Parse returned
    dynPc,      \* package parser, one goroutine: "off", "new", "done"
    matchIn,    \* class handler: the class, the source and the position
    matchOut,   \* class handler: the direction, and what the handler returned
    matchPc     \* class handler: "off", "new", "done"

vars == <<grammar, input, pc, op, result, err, panicked, got, bootRu, bootCached, boot,
          conIn, conOut, conPc, source, made, newPc,
          classArg, classOut, classStr, classAgain, classPc, dynIn, dynOut, dynPc,
          matchIn, matchOut, matchPc>>
parserVars == <<grammar, input, pc, op, result, err, panicked, got>>
bootVars == <<bootRu, bootCached, boot>>
constructVars == <<conIn, conOut, conPc>>
frontVars == <<source, made, newPc>>
classVars == <<classArg, classOut, classStr, classAgain, classPc>>
dynVars == <<dynIn, dynOut, dynPc>>
matchVars == <<matchIn, matchOut, matchPc>>
outsideParser == <<bootVars, constructVars, frontVars, classVars, dynVars, matchVars>>
outsideBoot == <<parserVars, constructVars, frontVars, classVars, dynVars, matchVars>>
outsideConstruct == <<parserVars, bootVars, frontVars, classVars, dynVars, matchVars>>
outsideFront == <<parserVars, bootVars, constructVars, classVars, dynVars, matchVars>>
outsideClass == <<parserVars, bootVars, constructVars, frontVars, dynVars, matchVars>>
outsideDyn == <<parserVars, bootVars, constructVars, frontVars, classVars, matchVars>>
outsideMatch == <<parserVars, bootVars, constructVars, frontVars, classVars, dynVars>>

GrammarSet ==
    [src : DOMAIN GrammarSources, IgnoreUnconsumedTail : BOOLEAN,
     SkipEmptyNodes : BOOLEAN]

NoGot == [s |-> <<>>, err |-> "not called"]

(***************************************************************************)
(* Package parser (the bootstrap parser): two goroutines call Parse on one *)
(* grammar  Top <- A B ; A <- 'a' ; B <- 'b'.  The handlers of Top are the *)
(* closures newRuleHandler("A") and newRuleHandler("B"); each closure owns *)
(* the variables ru and cached, which every Parse of the grammar shares.   *)
(***************************************************************************)
BootRefs == <<"A", "B">>
BootLiteral == ("A" :> "a" @@ "B" :> "b")
BootProcs == {1, 2}
BootInputs == {<<"a", "b">>, <<"a", "a">>, <<"b">>, <<>>}

BootIdle(in) ==
    [pc |-> "idle", h |-> 1, pos |-> 0, pending |-> "none", input |-> in, out |-> "none"]

BootInit ==
    /\ bootRu = [h \in DOMAIN BootRefs |-> "nil"]
    /\ bootCached = [h \in DOMAIN BootRefs |-> FALSE]
    /\ boot \in [BootProcs -> {BootIdle(in) : in \in BootInputs}]

\* grammar.Parse up to the first handler of the top rule
BootParse(p) ==
    /\ boot[p].pc = "idle"
    /\ boot' = [boot EXCEPT ![p].pc = "check"]
    /\ UNCHANGED <<bootRu, bootCached>>
    /\ UNCHANGED outsideBoot

\* newRuleHandler: if !cached
BootReadCached(p) ==
    /\ boot[p].pc = "check"
    /\ boot' = [boot EXCEPT ![p].pc = IF bootCached[boot[p].h] THEN "apply" ELSE "lookup"]
    /\ UNCHANGED <<bootRu, bootCached>>
    /\ UNCHANGED outsideBoot

\* newRuleHandler: ru, ok = g.rules[name]; cached = true.  The two stores are
\* not synchronised, so another goroutine may see them in either order.
BootStoreFirst(p) ==
    /\ boot[p].pc = "lookup"
    /\ \/ /\ bootRu' = [bootRu EXCEPT ![boot[p].h] = BootRefs[boot[p].h]]
          /\ bootCached' = bootCached
          /\ boot' = [boot EXCEPT ![p].pc = "store", ![p].pending = "cached"]
       \/ /\ bootCached' = [bootCached EXCEPT ![boot[p].h] = TRUE]
          /\ bootRu' = bootRu
          /\ boot' = [boot EXCEPT ![p].pc = "store", ![p].pending = "ru"]
    /\ UNCHANGED outsideBoot

BootStoreSecond(p) ==
    /\ boot[p].pc = "store"
    /\ IF boot[p].pending = "ru"
       THEN /\ bootRu' = [bootRu EXCEPT ![boot[p].h] = BootRefs[boot[p].h]]
            /\ bootCached' = bootCached
       ELSE /\ bootCached' = [bootCached EXCEPT ![boot[p].h] = TRUE]
            /\ bootRu' = bootRu
    /\ boot' = [boot EXCEPT ![p].pc = "apply", ![p].pending = "none"]
    /\ UNCHANGED outsideBoot

\* the checks of grammar.Parse on the top rule's width
BootFinish(in, w) ==
    IF w = 0 /\ Len(in) > 0 THEN "reject"
    ELSE IF w # Len(in) THEN "reject"
    ELSE "accept"

\* newRuleHandler: return r.apply(ru, pos); apply dereferences ru, and the
\* rule's only handler is its literal.
BootApply(p) ==
    /\ boot[p].pc = "apply"
    /\ LET b == boot[p]
           ru == bootRu[b.h]
       IN  IF ru = "nil"
           THEN boot' = [boot EXCEPT ![p].pc = "done", ![p].out = "panic"]
           ELSE IF b.pos < Len(b.input) /\ b.input[b.pos + 1] = BootLiteral[ru]
           THEN IF b.h < Len(BootRefs)
                THEN boot' = [boot EXCEPT ![p].pc = "check", ![p].h = b.h + 1,
                                          ![p].pos = b.pos + 1]
                ELSE boot' = [boot EXCEPT ![p].pc = "done", ![p].pos = b.pos + 1,
                                          ![p].out = BootFinish(b.input, b.pos + 1)]
           ELSE boot' = [boot EXCEPT ![p].pc = "done", ![p].out = "reject"]
    /\ UNCHANGED <<bootRu, bootCached>>
    /\ UNCHANGED outsideBoot

BootNext ==
    \E p \in BootProcs :
        \/ BootParse(p)
        \/ BootReadCached(p)
        \/ BootStoreFirst(p)
        \/ BootStoreSecond(p)
        \/ BootApply(p)

(***************************************************************************)
(* Package parser2: one call of an entry point, then the content annotator *)
(***************************************************************************)
ParserInit ==
    /\ grammar \in GrammarSet
    /\ input \in Inputs
    /\ pc = "new"
    /\ op = [name |-> "none", rule |-> ""]
    /\ result = NilResult
    /\ err = NoErr
    /\ panicked = FALSE
    /\ got = NoGot

\* no parse of package parser is going on
BootOff ==
    /\ bootRu = [h \in DOMAIN BootRefs |-> "nil"]
    /\ bootCached = [h \in DOMAIN BootRefs |-> FALSE]
    /\ boot = [p \in BootProcs |-> BootIdle(<<>>)]

\* no call of Construct is going on
ConstructOff ==
    /\ conIn = [tree |-> CNode("Simple", 10, <<>>),
                callback |-> [retA |-> "nil", program |-> 1], options |-> "nil"]
    /\ conOut = Built(Nil, "not called", <<>>)
    /\ conPc = "off"

\* no call of New is going on
NewOff ==
    /\ source = <<>>
    /\ made = Returns(NoGrammar, "not called", "none", <<>>)
    /\ newPc = "off"

\* no single-goroutine call of package parser is going on
DynOff ==
    /\ dynIn = [body |-> <<"'a'">>, source |-> <<>>]
    /\ dynOut = [r |-> DynResult(<<>>), err |-> "not called"]
    /\ dynPc = "off"

\* no call of package charclass is going on
ClassOff ==
    /\ classArg = <<>>
    /\ classOut = ClassRet(EmptyClass, "not called")
    /\ classStr = <<>>
    /\ classAgain = ClassRet(EmptyClass, "not called")
    /\ classPc = "off"

MatchOff ==
    /\ matchIn = <<>>
    /\ matchOut = <<>>
    /\ matchPc = "off"

Init ==
    /\ ParserInit
    /\ BootOff
    /\ ConstructOff
    /\ NewOff
    /\ ClassOff
    /\ DynOff
    /\ MatchOff

\* the entry point returned p, or the program ended inside it
Returned(o, p) ==
    /\ pc = "new"
    /\ pc' = IF p.err = "stack overflow" THEN "crashed" ELSE "parsed"
    /\ op' = o
    /\ result' = p.result
    /\ err' = p.err
    /\ UNCHANGED <<grammar, input, panicked, got>>

DoParse == Returned([name |-> "Parse", rule |-> ""], Parse(grammar, input)) /\ UNCHANGED outsideParser

DoParseRule ==
    /\ \E ruleName \in {""} \cup {RuleNames(grammar)[i] : i \in DOMAIN RuleNames(grammar)} :
          Returned([name |-> "ParseRule", rule |-> ruleName],
                   ParseRule(grammar, input, ruleName))
    /\ UNCHANGED outsideParser

DoParseBackward ==
    Returned([name |-> "ParseBackward", rule |-> ""], ParseBackward(grammar, input)) /\ UNCHANGED outsideParser

\* result.ComputeContent() as the tests call it, after a parse without error
DoComputeContent ==
    /\ pc = "parsed"
    /\ err = NoErr
    /\ LET c == ComputeContent(result) IN
       /\ result' = [result EXCEPT !.memo = c.memo]
       /\ panicked' = c.panic
    /\ pc' = "content"
    /\ UNCHANGED <<grammar, input, op, err, got>>
    /\ UNCHANGED outsideParser

\* a second result.ComputeContent() on the same Result
DoComputeContentAgain ==
    /\ pc = "content"
    /\ ~panicked
    /\ LET c == ComputeContent(result) IN
       /\ result' = [result EXCEPT !.memo = c.memo]
       /\ panicked' = c.panic
    /\ pc' = "content again"
    /\ UNCHANGED <<grammar, input, op, err, got>>
    /\ UNCHANGED outsideParser

\* result.Tree.ReconstructContent()
DoReconstructContent ==
    /\ pc \in {"content", "content again"}
    /\ ~panicked
    /\ got' = ReconstructContent(result.memo, result.Tree)
    /\ pc' = IF pc = "content" THEN "reconstructed" ELSE "reconstructed again"
    /\ UNCHANGED <<grammar, input, op, result, err, panicked>>
    /\ UNCHANGED outsideParser

Next ==
    \/ DoParse
    \/ DoParseRule
    \/ DoParseBackward
    \/ DoComputeContent
    \/ DoComputeContentAgain
    \/ DoReconstructContent

Spec == Init /\ [][Next]_vars

\* two concurrent parses of package parser on one grammar
\* no call of package parser2 is going on
ParserOff ==
    /\ grammar = [src |-> 1, IgnoreUnconsumedTail |-> FALSE, SkipEmptyNodes |-> FALSE]
    /\ input = <<>>
    /\ pc = "boot"
    /\ op = [name |-> "none", rule |-> ""]
    /\ result = NilResult
    /\ err = NoErr
    /\ panicked = FALSE
    /\ got = NoGot

BootSpecInit ==
    /\ BootInit
    /\ ParserOff
    /\ ConstructOff
    /\ NewOff
    /\ ClassOff
    /\ DynOff
    /\ MatchOff

SpecBoot == BootSpecInit /\ [][BootNext]_vars

(***************************************************************************)
(* Construct: one call on a tree with a callback and options               *)
(***************************************************************************)
ConstructInit ==
    /\ conIn \in [tree : ConstructTrees, callback : Callbacks, options : AccessorOptions]
    /\ conOut = Built(Nil, "not called", <<>>)
    /\ conPc = "new"

\* val, err := Construct(tree, callback, options)
DoConstruct ==
    /\ conPc = "new"
    /\ conOut' = Construct(conIn.tree, conIn.callback, conIn.options)
    /\ conPc' = "done"
    /\ UNCHANGED conIn
    /\ UNCHANGED outsideConstruct

ConstructSpecInit ==
    /\ ConstructInit
    /\ ParserOff
    /\ BootOff
    /\ NewOff
    /\ ClassOff
    /\ DynOff
    /\ MatchOff

SpecConstruct == ConstructSpecInit /\ [][DoConstruct]_vars

(***************************************************************************)
(* New: one call on a grammar source                                       *)
(***************************************************************************)
NewInit ==
    /\ source \in Sources
    /\ made = Returns(NoGrammar, "not called", "none", <<>>)
    /\ newPc = "new"

\* g, err := New(source, nil)
DoNew ==
    /\ newPc = "new"
    /\ \E order \in Orders : made' = New(source, order)
    /\ newPc' = "done"
    /\ UNCHANGED source
    /\ UNCHANGED outsideFront

NewSpecInit ==
    /\ NewInit
    /\ ParserOff
    /\ BootOff
    /\ ConstructOff
    /\ ClassOff
    /\ DynOff
    /\ MatchOff

SpecNew == NewSpecInit /\ [][DoNew]_vars

(***************************************************************************)
(* charclass: Parse, String, and Parse of what String printed              *)
(***************************************************************************)
ClassInit ==
    /\ classArg \in ClassArgs
    /\ classOut = ClassRet(EmptyClass, "not called")
    /\ classStr = <<>>
    /\ classAgain = ClassRet(EmptyClass, "not called")
    /\ classPc = "new"

\* c, err := charclass.Parse(arg)
DoClassParse ==
    /\ classPc = "new"
    /\ classOut' = charclassParse(classArg)
    /\ classPc' = "parsed"
    /\ UNCHANGED <<classArg, classStr, classAgain>>
    /\ UNCHANGED outsideClass

\* s := c.String()
DoClassString ==
    /\ classPc = "parsed"
    /\ classOut.err = NoErr
    /\ classStr' = charclassString(classOut.cc)
    /\ classPc' = "printed"
    /\ UNCHANGED <<classArg, classOut, classAgain>>
    /\ UNCHANGED outsideClass

\* c2, err := charclass.Parse(s)
DoClassReparse ==
    /\ classPc = "printed"
    /\ classAgain' = charclassParse(classStr)
    /\ classPc' = "reparsed"
    /\ UNCHANGED <<classArg, classOut, classStr>>
    /\ UNCHANGED outsideClass

ClassNext ==
    \/ DoClassParse
    \/ DoClassString
    \/ DoClassReparse

ClassSpecInit ==
    /\ ClassInit
    /\ ParserOff
    /\ BootOff
    /\ ConstructOff
    /\ NewOff
    /\ DynOff
    /\ MatchOff

SpecClass == ClassSpecInit /\ [][ClassNext]_vars

(***************************************************************************)
(* Package parser, one goroutine: grammar.Parse                            *)
(***************************************************************************)
DynInit ==
    /\ dynIn \in [body : ABodies, source : DynSources]
    /\ dynOut = [r |-> DynResult(<<>>), err |-> "not called"]
    /\ dynPc = "new"

\* r, err := g.Parse(source)
DoDynParse ==
    /\ dynPc = "new"
    /\ dynOut' = dynParse(DynRules(dynIn.body), dynIn.source)
    /\ dynPc' = "done"
    /\ UNCHANGED dynIn
    /\ UNCHANGED outsideDyn

DynSpecInit ==
    /\ DynInit
    /\ ParserOff
    /\ BootOff
    /\ ConstructOff
    /\ NewOff
    /\ ClassOff
    /\ MatchOff

SpecDyn == DynSpecInit /\ [][DoDynParse]_vars

(***************************************************************************)
(* One call of the handler of a character class term, in either direction. *)
(***************************************************************************)
\* the bytes of a source
MaxBytes == 3
SourceBytes == {"a", NL, LeadByte, ContByte}
ByteSources == UNION {[1..n -> SourceBytes] : n \in 0..MaxBytes}

\* the classes ".", "[[:alpha:]]", "[[:space:]]", "[\n]", "[a-\u00e9]", "[\na-\u00e9]"
\* and "[]", each of them also negated
ClassTerms ==
    {[kind |-> "CharClass", special |-> sp, map |-> {}, ranges |-> {}, negated |-> ng] :
        sp \in {"[:any:]", "IsLetter", "IsSpace"}, ng \in BOOLEAN}
    \cup {[kind |-> "CharClass", special |-> "", map |-> mp, ranges |-> rg, negated |-> ng] :
        mp \in {{}, {NL}}, rg \in {{}, {<<"a", EAcute>>}}, ng \in BOOLEAN}

\* the grammar "Top <- cc"
ClassGrammar(cc) == [RuleNames |-> <<"Top">>, Rules |-> ("Top" :> Seq1(<<cc>>))]

MatchInit ==
    /\ matchIn \in {m \in [cc : ClassTerms, source : ByteSources, pos : 0..MaxBytes] :
                        m.pos <= Len(m.source)}
    /\ matchOut = <<>>
    /\ matchPc = "new"

\* w, err := h(r, pos) for the handler h of makeCharClassHandler(cc)
DoMatch ==
    /\ matchPc = "new"
    /\ LET a == makeCharClassHandler(NewResult(ClassGrammar(matchIn.cc), matchIn.source),
                                     matchIn.cc, matchIn.pos)
       IN  matchOut' = [dir |-> "forward", w |-> a.w, err |-> a.err]
    /\ matchPc' = "done"
    /\ UNCHANGED matchIn
    /\ UNCHANGED outsideMatch

\* w, err := h(r, pos) for the handler h of makeBackwardCharClassHandler(cc)
DoMatchBackward ==
    /\ matchPc = "new"
    /\ LET a == makeBackwardCharClassHandler(
                    NewResult(ClassGrammar(matchIn.cc), matchIn.source),
                    matchIn.cc, matchIn.pos)
       IN  matchOut' = [dir |-> "backward", w |-> a.w, err |-> a.err]
    /\ matchPc' = "done"
    /\ UNCHANGED matchIn
    /\ UNCHANGED outsideMatch

MatchNext == DoMatch \/ DoMatchBackward

MatchSpecInit ==
    /\ MatchInit
    /\ ParserOff
    /\ BootOff
    /\ ConstructOff
    /\ NewOff
    /\ ClassOff
    /\ DynOff

SpecMatch == MatchSpecInit /\ [][MatchNext]_vars

(***************************************************************************)
(* Properties                                                              *)
(***************************************************************************)
RECURSIVE Reachable(_, _)
\* the keys of the nodes reachable from the node under key through Children
Reachable(memo, key) ==
    {key} \cup UNION {Reachable(memo, memo[key].Children[i]) : i \in DOMAIN memo[key].Children}

\* the rule the call applied at position 0
StartRule ==
    IF op.rule = "" THEN RuleNames(grammar)[1] ELSE op.rule

\* what the handlers of the call did, in order
Log == IF pc = "new" \/ result = NilResult THEN <<>> ELSE result.log

Parsed(o) == pc = "parsed" /\ op.name = o /\ err = NoErr

\* ranges inside the input, children inside the parent, in order, disjoint
PosInv(memo, key, src) ==
    \A k \in Reachable(memo, key) :
        LET n == memo[k] IN
        /\ n.Pos >= 0
        /\ n.Len >= 0
        /\ n.Pos + n.Len <= Len(src)
        /\ \A i \in DOMAIN n.Children :
              LET c == memo[n.Children[i]] IN
              /\ n.Pos <= c.Pos
              /\ c.Pos + c.Len <= n.Pos + n.Len
              /\ \A j \in DOMAIN n.Children :
                    i < j => c.Pos + c.Len <= memo[n.Children[j]].Pos

\* C1: after a Parse without error (the whole input consumed), ComputeContent
\* does not slice out of range and ReconstructContent returns the input, no error.
C1_RoundTrip ==
    op.name = "Parse" /\ ~grammar.IgnoreUnconsumedTail =>
        /\ pc = "content" => ~panicked
        /\ pc = "reconstructed" => got = [s |-> input, err |-> NoErr]

\* C2: after a successful Parse every node of the tree lies inside the input,
\* and the children of every node are in ascending order, pairwise disjoint
\* and inside their parent's range.
C2_Positions == Parsed("Parse") => PosInv(result.memo, result.Tree, input)

\* C3: Parse and ParseRule return an error when the start rule fails, when it
\* matched 0 bytes of a non-empty input (whatever IgnoreUnconsumedTail says),
\* and when it left a tail and IgnoreUnconsumedTail is false; otherwise they
\* return no error and a Result with a tree.
C3_Acceptance ==
    pc = "parsed" /\ op.name # "ParseBackward" =>
        /\ result # NilResult
        /\ LET n == result.memo[<<0, StartRule>>] IN
           IF n.Err # NoErr THEN err # NoErr
           ELSE IF n.Len = 0 /\ Len(input) > 0 THEN err # NoErr
           ELSE IF n.Len < Len(input) /\ ~grammar.IgnoreUnconsumedTail THEN err # NoErr
           ELSE err = NoErr /\ result.Tree # NoTree

\* C3: a start rule that matched 0 bytes of a non-empty input was rejected
\* although IgnoreUnconsumedTail is set.
C3_Witness ==
    /\ pc = "parsed"
    /\ op.name # "ParseBackward"
    /\ result # NilResult
    /\ grammar.IgnoreUnconsumedTail
    /\ Len(input) > 0
    /\ result.memo[<<0, StartRule>>].Err = NoErr
    /\ result.memo[<<0, StartRule>>].Len = 0
    /\ err = "matched 0 characters"

\* C4: no node with a non-nil Err is reachable from the tree of a successful
\* parse, forward or backward.
C4_NoFailedNode ==
    pc = "parsed" /\ err = NoErr =>
        \A k \in Reachable(result.memo, result.Tree) : result.memo[k].Err = NoErr

\* C5: every ordered choice that was run ends like its first succeeding
\* alternative run alone from the state the choice was entered in: the same
\* width, the same children of the current node, every earlier alternative
\* failing; and it fails exactly when every alternative fails.
C5_OrderedChoice ==
    \A i \in DOMAIN Log :
        Log[i].ev = "choice" =>
            LET e == Log[i] IN
            IF e.won = 0
            THEN /\ e.err # NoErr
                 /\ \A j \in DOMAIN e.rhs :
                       makeGroupHandler(e.entry, e.rhs[j], e.pos).err # NoErr
            ELSE LET alone == makeGroupHandler(e.entry, e.rhs[e.won], e.pos) IN
                 /\ e.err = NoErr
                 /\ alone.err = NoErr
                 /\ alone.w = e.w
                 /\ TopNode(alone.r).Children = e.after
                 /\ \A j \in 1..(e.won - 1) :
                       makeGroupHandler(e.entry, e.rhs[j], e.pos).err # NoErr

\* C6: every predicate that was run reported 0 bytes, &X succeeded exactly
\* when X did and !X exactly when X failed, and the term after a predicate
\* in a sequence was tried at the position the predicate was tried at.
C6_ZeroWidth ==
    \A i \in DOMAIN Log :
        /\ Log[i].ev = "pred" =>
              /\ Log[i].w = 0
              /\ (Log[i].err = NoErr) = (Log[i].positive = (Log[i].inner = NoErr))
        /\ Log[i].ev = "group" =>
              \A j \in DOMAIN Log[i].starts :
                  /\ Log[i].terms[j].kind \in {"Pred", "NegPred"}
                  /\ j + 1 \in DOMAIN Log[i].starts
                  => Log[i].starts[j + 1] = Log[i].starts[j]

\* C6: a sequence ran a predicate that succeeded on a non-empty match of its
\* term, and then ran the next term.
C6_Witness ==
    \E i \in DOMAIN Log :
        /\ Log[i].ev = "group"
        /\ \E j \in DOMAIN Log[i].starts :
              /\ Log[i].terms[j].kind = "Pred"
              /\ j + 1 \in DOMAIN Log[i].starts
              /\ \E k \in DOMAIN Log :
                    /\ Log[k].ev = "pred"
                    /\ Log[k].positive
                    /\ Log[k].pos = Log[i].starts[j]
                    /\ Log[k].err = NoErr

\* C7: after a successful Parse, the Text of every node whose rule succeeded
\* through a capture started at p of w bytes is input[p : p+w].
C7_CaptureText ==
    Parsed("Parse") =>
        \A k \in DOMAIN result.memo :
            LET n == result.memo[k] IN
            n.Err = NoErr /\ n.Cap # <<>> =>
                n.Text = Slice(input, n.Cap[1], n.Cap[1] + n.Cap[2])

\* a node without text, children and annotations
Empty(n) ==
    /\ n.Text = <<>>
    /\ n.Children = <<>>
    /\ n.Annotations = {}
    /\ n.TreeAnnotations = {}

\* C8: with SkipEmptyNodes an empty node is not appended to a parent, fresh
\* or from the memo table; a successfully applied rule's node is attached in
\* every other case, the root always; and a successful Parse or ParseRule has
\* a tree labelled with the start rule.
C8_Elision ==
    /\ \A i \in DOMAIN Log :
          Log[i].ev = "apply" =>
              LET e == Log[i]
                  elided == /\ grammar.SkipEmptyNodes
                            /\ Empty(result.memo[e.key])
                            /\ e.depth > 0
              IN  /\ elided => ~e.attached
                  /\ e.err = NoErr /\ ~elided => e.attached
    /\ pc = "parsed" /\ err = NoErr =>
          /\ result.Tree # NoTree
          /\ result.memo[result.Tree].Label = StartRule

\* C8: with SkipEmptyNodes, a successful empty node found in the memo table
\* was not appended to its parent, in a parse that succeeded.
C8_Witness ==
    /\ pc = "parsed"
    /\ err = NoErr
    /\ grammar.SkipEmptyNodes
    /\ result.Tree # NoTree
    /\ \E i \in DOMAIN Log :
          /\ Log[i].ev = "apply"
          /\ Log[i].hit
          /\ Log[i].err = NoErr
          /\ Log[i].depth > 0
          /\ Empty(result.memo[Log[i].key])
          /\ ~Log[i].attached

\* what a parse of package parser returns when no other parse runs
BootAlone(in) == IF in = <<"a", "b">> THEN "accept" ELSE "reject"

\* C9: parsing never writes a variable captured by a matcher closure, and
\* each of two concurrent parses returns what it returns when run alone.
C9_GrammarReadOnly ==
    /\ bootRu = [h \in DOMAIN BootRefs |-> "nil"]
    /\ bootCached = [h \in DOMAIN BootRefs |-> FALSE]
    /\ \A p \in BootProcs :
          boot[p].pc = "done" => boot[p].out = BootAlone(boot[p].input)

\* C10: after a successful ParseBackward every node of the tree has
\* 0 <= Pos and Pos + Len <= len(input), with Pos the start of its match, and
\* the children of every node are in ascending order inside their parent.
C10_BackwardPositions ==
    Parsed("ParseBackward") => PosInv(result.memo, result.Tree, input)

RECURSIVE TreeOf(_, _)
\* the tree under key as a value: what tree.Extract can project from it
TreeOf(memo, key) ==
    LET n == memo[key] IN
    [Label |-> n.Label, Text |-> n.Text, Pos |-> n.Pos, Len |-> n.Len,
     Row |-> n.Row, Col |-> n.Col,
     Children |-> [i \in DOMAIN n.Children |-> TreeOf(memo, n.Children[i])]]

RECURSIVE TreeButLen(_, _)
\* the same value without the Len of the nodes
TreeButLen(memo, key) ==
    LET n == memo[key] IN
    [Label |-> n.Label, Text |-> n.Text, Pos |-> n.Pos,
     Row |-> n.Row, Col |-> n.Col,
     Children |-> [i \in DOMAIN n.Children |-> TreeButLen(memo, n.Children[i])]]

\* the grammar of package backward's tests with its options
IsBackwardTest ==
    grammar = [src |-> 4, IgnoreUnconsumedTail |-> FALSE, SkipEmptyNodes |-> TRUE]

\* ParseBackward on the grammar and input of the state
BackwardRun == ParseBackward(grammar, input)

\* the heap of BackwardRun after ComputeContent
BackwardContent == ComputeContent(BackwardRun.result)

NoSpace == \A i \in DOMAIN input : input[i] # NL

\* C11 (as stated): on the grammar of package backward's tests, Parse and
\* ParseBackward agree on accept/reject, and when both accept the two trees
\* have the same children in the same order with the same Label, Text, Pos,
\* Len, Row and Col for every node.
C11_Symmetry ==
    IsBackwardTest /\ op.name = "Parse" =>
        /\ pc = "parsed" => (err = NoErr) = (BackwardRun.err = NoErr)
        /\ pc = "content" =>
              /\ ~panicked /\ ~BackwardContent.panic
              /\ TreeOf(result.memo, result.Tree)
                    = TreeOf(BackwardContent.memo, BackwardRun.result.Tree)

\* C11 (amended): Parse and ParseBackward agree on accept/reject, and when
\* both accept the two trees have the same children in the same order with
\* the same Label, Text, Pos, Row and Col for every node; the Len of every
\* node is the same too when the input holds no whitespace.
C11_SymmetryButLen ==
    IsBackwardTest /\ op.name = "Parse" =>
        /\ pc = "parsed" => (err = NoErr) = (BackwardRun.err = NoErr)
        /\ pc = "content" =>
              /\ ~panicked /\ ~BackwardContent.panic
              /\ TreeButLen(result.memo, result.Tree)
                    = TreeButLen(BackwardContent.memo, BackwardRun.result.Tree)
              /\ NoSpace => TreeOf(result.memo, result.Tree)
                               = TreeOf(BackwardContent.memo, BackwardRun.result.Tree)

\* C11: both directions accepted an input with whitespace between an A and a
\* B, and both trees have the two children.
C11_Witness ==
    /\ IsBackwardTest
    /\ op.name = "Parse"
    /\ pc = "content"
    /\ input = <<"a", NL, "b">>
    /\ Len(result.memo[result.Tree].Children) = 2
    /\ BackwardRun.err = NoErr
    /\ Len(BackwardContent.memo[BackwardRun.result.Tree].Children) = 2

\* C12: ParseBackward returns an error when the start rule left bytes
\* unconsumed and IgnoreUnconsumedTail is false, and when the start rule
\* succeeded having consumed 0 bytes of a non-empty input, whatever
\* IgnoreUnconsumedTail says.
C12_BackwardAcceptance ==
    pc = "parsed" /\ op.name = "ParseBackward" /\ result # NilResult =>
        LET n == result.memo[<<Len(input), StartRule>>] IN
        /\ n.Err = NoErr /\ n.Len < Len(input) /\ ~grammar.IgnoreUnconsumedTail
              => err # NoErr
        /\ n.Err = NoErr /\ n.Len = 0 /\ Len(input) > 0 => err # NoErr

\* the number of newlines in src[0:pos]
NewlinesBefore(src, pos) == Cardinality({i \in 1..pos : src[i] = NL})

\* the offset of the byte after the last newline of src[0:pos], 0 without one
LineStart(src, pos) ==
    LET nls == {i \in 1..pos : src[i] = NL} IN
    IF nls = {} THEN 0 ELSE CHOOSE i \in nls : \A j \in nls : j <= i

\* C18: when ComputeContent has returned on the tree of a successful parse,
\* forward or backward, every node's Row is 1 plus the number of newlines in
\* input[0:Pos] and its Col is the number of bytes from the byte after the
\* last newline of input[0:Pos] (or the start of the input) to Pos.
C18_RowCol ==
    pc = "content" /\ ~panicked =>
        \A k \in Reachable(result.memo, result.Tree) :
            LET n == result.memo[k] IN
            /\ n.Row = 1 + NewlinesBefore(input, n.Pos)
            /\ n.Col = n.Pos - LineStart(input, n.Pos)

\* C18: a backward parse left a node on the second line, one byte in.
C18_Witness ==
    /\ pc = "content"
    /\ ~panicked
    /\ op.name = "ParseBackward"
    /\ \E k \in Reachable(result.memo, result.Tree) :
          LET n == result.memo[k] IN
          n.Pos = 2 /\ n.Row = 2 /\ n.Col = 1 /\ input[1] = NL

RECURSIVE StarRun(_, _, _, _)
\* the maximal run of iterations of term from pos in state r that each
\* succeed with more than 0 bytes: the bytes they consumed together, their
\* number n, the current node's children after the last of them, and the
\* children as the terminating iteration left them
StarRun(dir, r, term, pos) ==
    LET h == IF dir = "forward" THEN makeTermHandler(r, term, pos)
             ELSE makeBackwardTermHandler(r, term, pos)
    IN  IF h.err = NoErr /\ h.w > 0
        THEN LET rest == StarRun(dir, h.r, term,
                                 IF dir = "forward" THEN pos + h.w ELSE pos - h.w)
             IN  [w |-> h.w + rest.w, children |-> rest.children, n |-> rest.n + 1,
                  last |-> rest.last]
        ELSE [w |-> 0, children |-> TopNode(r).Children, n |-> 0,
              last |-> TopNode(h.r).Children]

IsPrefix(s, t) == Len(s) <= Len(t) /\ SubSeq(t, 1, Len(s)) = s

\* C20: X* never fails; it returns the bytes consumed by the maximal run of
\* iterations of X that each succeed with more than 0 bytes, and when it
\* returns the current node's children are the children before the star
\* followed by what exactly those iterations appended (what the terminating
\* iteration appended is removed).
C20_Star ==
    \A i \in DOMAIN Log :
        Log[i].ev = "star" =>
            LET e == Log[i]
                run == StarRun(e.dir, e.entry, e.term, e.pos)
            IN  /\ e.err = NoErr
                /\ e.w = run.w
                /\ e.after = run.children
                /\ IsPrefix(e.before, e.after)

\* C20: a star counted two iterations that appended a child each, and its
\* terminating iteration appended a node that was removed again.
C20_Witness ==
    \E i \in DOMAIN Log :
        /\ Log[i].ev = "star"
        /\ LET e == Log[i]
               run == StarRun(e.dir, e.entry, e.term, e.pos)
           IN  /\ run.n = 2
               /\ e.w = 2
               /\ Len(e.after) = Len(e.before) + 2
               /\ Len(run.last) > Len(e.after)

RECURSIVE NodesOf(_)
\* the nodes of the tree under n
NodesOf(n) == {n} \cup UNION {NodesOf(n.Children[i]) : i \in DOMAIN n.Children}

\* the names that the callback passes to a getter while handling a node
QueriedBy(cb, label) ==
    CASE label = "Simple" -> {Programs[cb.program][i].name : i \in DOMAIN Programs[cb.program]}
      [] label = "Top" -> {"Simple"}
      [] OTHER -> {}

\* the value that the callback returns for a leaf
ValueOfKid(cb, c) ==
    CASE c.Label = "A" -> ValueOfA(cb, c)
      [] c.Label = "B" -> Scalar("string", c.Id)
      [] OTHER -> Nil

Yielded(cb, n, l) ==
    LET Yields(c) == c.Label = l /\ ~IsNil(ValueOfKid(cb, c))
        kids == SelectSeq(n.Children, Yields)
    IN  [i \in DOMAIN kids |-> ValueOfKid(cb, kids[i])]

\* the Simple node of the tree that is constructed
SimpleOf(tree) == IF tree.Label = "Simple" THEN tree ELSE tree.Children[1]

\* C14: when the callback of a node runs, the accessor holds under the label
\* L of k >= 1 non-nil child values of one type T the value itself if k = 1
\* and the slice of the k values in child order if k >= 2; Get(L, []T{})
\* returns the k values in child order in both cases; a label whose children
\* all yielded nil is not in the accessor.
C14_Collected ==
    conPc = "done" =>
        \A i \in DOMAIN conOut.seen :
            conOut.seen[i].label = "Simple" =>
                \A l \in KidLabels :
                    LET e == conOut.seen[i]
                        vals == Yielded(conIn.callback, SimpleOf(conIn.tree), l)
                        k == Len(vals)
                    IN  /\ k = 0 => l \notin DOMAIN e.children
                        /\ k >= 1 /\ (\A j \in 1..k : vals[j].ty = vals[1].ty) =>
                              /\ l \in DOMAIN e.children
                              /\ k = 1 => /\ e.children[l].ty = vals[1].ty
                                          /\ e.children[l].v = vals[1].v
                              /\ k >= 2 => /\ e.children[l].ty = SliceOf(vals[1].ty)
                                           /\ e.children[l].v = [j \in 1..k |-> vals[j].v]
                              /\ \A j \in DOMAIN e.got :
                                    /\ e.got[j].q.fn = "Get"
                                    /\ e.got[j].q.name = l
                                    /\ e.got[j].q.ty.ty = SliceOf(vals[1].ty)
                                    => /\ e.got[j].err = NoErr
                                       /\ e.got[j].val.ty = SliceOf(vals[1].ty)
                                       /\ e.got[j].val.v = [m \in 1..k |-> vals[m].v]

\* C14: the children A, _, A yielded two strings and nil; Get("A", []string{})
\* returned the two strings in child order.
C14_Witness ==
    /\ conPc = "done"
    /\ conOut.err = NoErr
    /\ conIn.callback = [retA |-> "string", program |-> 1]
    /\ [i \in DOMAIN SimpleOf(conIn.tree).Children |-> SimpleOf(conIn.tree).Children[i].Label]
          = <<"A", "_", "A">>
    /\ \E i \in DOMAIN conOut.seen :
          /\ conOut.seen[i].label = "Simple"
          /\ conOut.seen[i].got[1].val = [ty |-> <<"[]", "string">>, v |-> <<1, 3>>]

PostfixKinds == {"*", "?", "+"}

\* a postfix operator of the source has no term before it: it is the first
\* token of a body, of an alternative, of a group or capture, or follows a
\* prefix
LeadingPostfix ==
    \E r \in DOMAIN source : \E i \in DOMAIN source[r].body :
        /\ source[r].body[i].k \in PostfixKinds
        /\ \/ i = 1
           \/ source[r].body[i - 1].k \in {"/", "(", "<", "!", "&"}

RECURSIVE Attached(_, _, _)
\* the terms of a sequence with each postfix operator around what precedes it
Attached(terms, i, acc) ==
    IF i > Len(terms)
    THEN acc
    ELSE IF terms[i].kind = "Special" /\ Len(acc) > 0
    THEN Attached(terms, i + 1,
                  [acc EXCEPT ![Len(acc)] = Special(acc[Len(acc)], terms[i].rune)])
    ELSE Attached(terms, i + 1, Append(acc, terms[i]))

\* C15: in every sequence of terms a postfix operator is attached to the
\* term before it, consecutive ones nesting left to right, and a sequence
\* that starts with one is rejected; for a source in which a postfix operator
\* has no term before it New returns an error, and does not crash.
C15_Postfix ==
    newPc = "done" =>
        /\ \A i \in DOMAIN made.seen :
              LET e == made.seen[i] IN
              IF e.terms[1].kind = "Special"
              THEN e.err # NoErr
              ELSE e.err = NoErr /\ e.out = Attached(e.terms, 1, <<>>)
        /\ LeadingPostfix => made.err # NoErr /\ made.crash = "none"

RECURSIVE IdentsOfTerm(_)
RECURSIVE IdentsOfRHS(_)
\* the rule names that a term refers to
IdentsOfTerm(t) ==
    CASE t.kind = "Ident" -> {t.ident}
      [] t.kind \in {"Parens", "Capture"} -> IdentsOfRHS(t.rhs)
      [] t.kind \in {"NegPred", "Pred", "Special"} -> IdentsOfTerm(t.term)
      [] OTHER -> {}

IdentsOfRHS(rhs) ==
    UNION {IdentsOfTerm(rhs[i][j]) : <<i, j>> \in {<<a, b>> \in (DOMAIN rhs) \X (1..MaxBody + 1) :
                                                        b \in DOMAIN rhs[a]}}

\* the names of the rules of the source, in order
SourceNames == [i \in DOMAIN source |-> source[i].name]

\* C16: a grammar returned by New has a non-empty RuleNames with the rule
\* names of the source in order, each once, Rules has exactly those keys, and
\* every Ident term names a key of Rules; for a source with a duplicate rule
\* name, a reference to an undefined rule or no rules New returns an error.
C16_Closed ==
    newPc = "done" =>
        /\ made.err = NoErr /\ made.crash = "none" =>
              LET g == made.grammar IN
              /\ Len(g.RuleNames) > 0
              /\ g.RuleNames = SourceNames
              /\ \A i, j \in DOMAIN g.RuleNames : g.RuleNames[i] = g.RuleNames[j] => i = j
              /\ DOMAIN g.Rules = {g.RuleNames[i] : i \in DOMAIN g.RuleNames}
              /\ \A name \in DOMAIN g.Rules : IdentsOfRHS(g.Rules[name]) \subseteq DOMAIN g.Rules
        /\ \/ Len(source) = 0
           \/ \E i, j \in DOMAIN source : i # j /\ source[i].name = source[j].name
           \/ \E r \in DOMAIN source : \E i \in DOMAIN source[r].body :
                 /\ source[r].body[i].k = "Ident"
                 /\ source[r].body[i].s \notin {source[q].name : q \in DOMAIN source}
           => made.err # NoErr /\ made.crash = "none"

\* C17: for a string that Parse accepts, Parse of what String prints for the
\* class succeeds and gives an equal class (Negated, Special, members and
\* ranges), and printing that class again gives the same string.
C17_RoundTrip ==
    classPc = "reparsed" =>
        /\ classAgain.err = NoErr
        /\ classAgain.cc = classOut.cc
        /\ charclassString(classAgain.cc) = classStr

\* the rhs of the rule has a capture
HasCapture(rhs) == \E i \in DOMAIN rhs : rhs[i] = "<"

\* C19: in package parser a rule whose body has a capture contributes a node
\* whenever it succeeds, also when the captured text is empty and the rule has
\* no children; a rule with no capture and no node children contributes none.
C19_CaptureForcesNode ==
    dynPc = "done" =>
        \A i \in DOMAIN dynOut.r.log :
            LET e == dynOut.r.log[i]
                rhs == DynRules(dynIn.body)[e.rule]
            IN  /\ HasCapture(rhs) => e.attached
                /\ (~HasCapture(rhs) /\ Len(e.node.Children) = 0) => ~e.attached

\* the rule applications whose matcher was started: those that returned (the
\* misses of the log), then those still running, outermost first
Started ==
    IF pc = "new" \/ result = NilResult
    THEN <<>>
    ELSE SelectSeq([i \in DOMAIN Log |-> IF Log[i].ev = "apply" /\ ~Log[i].hit
                                          THEN Log[i].key ELSE <<>>],
                   LAMBDA k : k # <<>>)
         \o [i \in DOMAIN result.nodeStack |->
                <<result.nodeStack[i].Pos, result.nodeStack[i].Label>>]

\* the first application of the rule at the position of key that returned
FirstApply(key) ==
    Log[CHOOSE i \in DOMAIN Log :
            /\ Log[i].ev = "apply"
            /\ Log[i].key = key
            /\ \A j \in 1..(i - 1) : ~(Log[j].ev = "apply" /\ Log[j].key = key)]

\* C21: within one parse the matcher of a rule is started at most once for a
\* position; a later application of the rule at that position is served from
\* the memo table with the consumed length and the outcome of the first one,
\* and on success it attaches the node the first one made.
C21_WriteOnce ==
    /\ \A i, j \in DOMAIN Started : Started[i] = Started[j] => i = j
    /\ \A i \in DOMAIN Log :
          Log[i].ev = "apply" /\ Log[i] # FirstApply(Log[i].key) =>
              /\ Log[i].hit
              /\ Log[i].w = FirstApply(Log[i].key).w
              /\ Log[i].err = FirstApply(Log[i].key).err

\* C24: a rule is never applied at a position while an application of the
\* same rule at the same position is still running with its matcher started
\* again, and no parse ends with the stack exhausted.
C24_NoNestedRun ==
    /\ pc # "crashed"
    /\ pc # "new" /\ result # NilResult =>
          \A i, j \in DOMAIN result.nodeStack :
              /\ result.nodeStack[i].Pos = result.nodeStack[j].Pos
              /\ result.nodeStack[i].Label = result.nodeStack[j].Label
              => i = j

\* the engine that never consults the memo table, called as the call of the
\* state was: every rule application runs the rule's matcher
Recomputed ==
    LET fresh == [NewResult(grammar, input) EXCEPT !.recompute = TRUE] IN
    IF op.name = "ParseBackward"
    THEN AcceptBackward(grammar, input, backwardApply(fresh, StartRule, Len(input)))
    ELSE Accept(grammar, input, apply(fresh, StartRule, 0))

\* C22: a parse ends like the parse of the engine that never consults the memo
\* table: both accept or both reject, and when they accept the two trees have
\* the same Label, Text, Pos, Len and children at every node.
C22_Transparent ==
    pc = "parsed" =>
        /\ (err = NoErr) = (Recomputed.err = NoErr)
        /\ err = NoErr =>
              TreeOf(result.memo, result.Tree)
                  = TreeOf(Recomputed.result.memo, Recomputed.result.Tree)

RECURSIVE CanBeEmpty(_, _, _)
RECURSIVE Heads(_, _, _)

\* some alternative of rhs can succeed without consuming a byte; fuel bounds
\* the rule references that are followed
EmptyRHS(g, rhs, fuel) ==
    \E a \in DOMAIN rhs : \A i \in DOMAIN rhs[a] : CanBeEmpty(g, rhs[a][i], fuel)

\* the term can succeed without consuming a byte
CanBeEmpty(g, t, fuel) ==
    CASE t.kind = "Literal" -> t.lit = <<>>
      [] t.kind = "CharClass" -> FALSE
      [] t.kind \in {"Pred", "NegPred"} -> TRUE
      [] t.kind = "Special" -> t.rune \in {"*", "?"} \/ CanBeEmpty(g, t.term, fuel)
      [] t.kind \in {"Parens", "Capture"} -> EmptyRHS(g, t.rhs, fuel)
      [] t.kind = "Ident" -> fuel > 0 /\ EmptyRHS(g, g.Rules[t.ident], fuel - 1)

\* the rules that the sequence can apply at the position it starts at
HeadsGroup(g, terms, fuel) ==
    UNION {Heads(g, terms[i], fuel) :
               i \in {i \in DOMAIN terms : \A j \in 1..(i - 1) : CanBeEmpty(g, terms[j], fuel)}}

\* the rules that rhs can apply at the position it starts at
HeadsRHS(g, rhs, fuel) == UNION {HeadsGroup(g, rhs[a], fuel) : a \in DOMAIN rhs}

\* the rules that the term can apply at the position it starts at
Heads(g, t, fuel) ==
    CASE t.kind \in {"Literal", "CharClass"} -> {}
      [] t.kind \in {"Pred", "NegPred", "Special"} -> Heads(g, t.term, fuel)
      [] t.kind \in {"Parens", "Capture"} -> HeadsRHS(g, t.rhs, fuel)
      [] t.kind = "Ident" ->
             {t.ident} \cup (IF fuel > 0 THEN HeadsRHS(g, g.Rules[t.ident], fuel - 1) ELSE {})

\* some rule of the grammar can reach a reference to itself without first
\* consuming input
SelfReaching(g) ==
    \E name \in DOMAIN g.Rules : name \in HeadsRHS(g, g.Rules[name], Len(g.RuleNames))

\* C23: when no rule of the grammar can reach a reference to itself without
\* first consuming input, a call of Parse, ParseRule or ParseBackward ends by
\* returning (the call that does not return is the one that nests rule
\* applications until the stack is exhausted); and a star never counts more
\* iterations than it consumed bytes.
C23_Termination ==
    /\ ~SelfReaching(GrammarSources[grammar.src]) => pc # "crashed"
    /\ \A i \in DOMAIN Log :
          Log[i].ev = "star" =>
              StarRun(Log[i].dir, Log[i].entry, Log[i].term, Log[i].pos).n <= Log[i].w

(***************************************************************************)
(* C25: a class term fails at the end of the input and where decoding      *)
(* yields the replacement scalar; elsewhere it succeeds exactly when       *)
(* membership (the named check, the set, or a range) differs from the      *)
(* negation flag, and then consumes the byte length of the decoded scalar. *)
(* This holds in both directions.                                          *)
(***************************************************************************)
\* what decoding yields at the position, in the direction of the call
DecodedAt(m, dir) ==
    IF dir = "backward"
    THEN DecodeLastRuneInString(Slice(m.source, 0, m.pos))
    ELSE DecodeRuneInString(Slice(m.source, m.pos, Len(m.source)))

\* membership of the scalar in the class, before negation
Member(cc, c) ==
    IF cc.special # "" THEN SpecialMatch(cc.special, c)
    ELSE c \in cc.map \/ unicodeIs(cc.ranges, c)

\* C25: the handler fails at the end of the input and on the replacement
\* scalar, and elsewhere succeeds exactly when membership differs from the
\* negation flag, consuming the byte length of the decoded scalar.
C25_ClassMatch ==
    matchPc = "done" =>
        LET d == DecodedAt(matchIn, matchOut.dir) IN
        IF d.w = 0 \/ d.c = RuneError
        THEN matchOut.err # NoErr
        ELSE /\ (matchOut.err = NoErr) <=> (Member(matchIn.cc, d.c) # matchIn.cc.negated)
             /\ matchOut.err = NoErr => matchOut.w = d.w

RECURSIVE OneVariant(_)
RECURSIVE OneVariantRHS(_)
\* the term has one of the eight variants set, a Special has an inner term,
\* and the same holds for the terms inside it
OneVariant(t) ==
    CASE t.kind \in {"Parens", "Capture"} -> OneVariantRHS(t.rhs)
      [] t.kind \in {"NegPred", "Pred", "Special"} -> OneVariant(t.term)
      [] t.kind \in {"CharClass", "Literal", "Ident"} -> TRUE
      [] OTHER -> FALSE

OneVariantRHS(rhs) ==
    \A i \in DOMAIN rhs : \A j \in DOMAIN rhs[i] : OneVariant(rhs[i][j])

\* C26: compiling the terms that the front-end produced selects a matcher for
\* each of them, so New never ends in the abort of makeTermHandler or in a
\* panic, the empty literal included; every term of a grammar that New returns
\* has exactly one variant set, and every Special term has an inner term.
C26_OneVariant ==
    newPc = "done" =>
        /\ made.crash = "none"
        /\ made.err = NoErr =>
              \A name \in DOMAIN made.grammar.Rules : OneVariantRHS(made.grammar.Rules[name])

\* C27: when the term of an optional fails, the optional returns success with
\* 0 bytes consumed, and the children of the current node are the ones it had
\* before the term was tried.
C27_OptionalNoTrace ==
    \A i \in DOMAIN Log :
        Log[i].ev = "question" /\ Log[i].inner # NoErr =>
            /\ Log[i].err = NoErr
            /\ Log[i].w = 0
            /\ Log[i].after = Log[i].before

\* C28: when a predicate returns, with success or with failure, the children
\* and the Text of the current node are the ones from before the predicate ran.
C28_PredicateNoTrace ==
    \A i \in DOMAIN Log :
        Log[i].ev = "pred" =>
            /\ Log[i].after = Log[i].before
            /\ Log[i].textAfter = Log[i].textBefore

\* C29: after a parse, the Text of a node whose rule succeeded is what the
\* capture on the path that made the rule succeed took from the input, and
\* it is empty when that path ran no capture: a capture inside an abandoned
\* alternative, iteration or optional leaves nothing behind.
C29_TextFromPath ==
    pc = "parsed" =>
        \A k \in DOMAIN result.memo :
            LET n == result.memo[k] IN
            n.Err = NoErr =>
                n.Text = IF n.Cap = <<>> THEN <<>>
                         ELSE Slice(input, n.Cap[1], n.Cap[1] + n.Cap[2])

\* what a call of ComputeContent writes on the nodes of the tree
Annotated(r) ==
    [k \in Reachable(r.memo, r.Tree) |->
        <<r.memo[k].Content, r.memo[k].Row, r.memo[k].Col>>]

\* C30: a second ComputeContent on the same Result leaves the Content, the Row
\* and the Col of every node of the tree as the first call left them.
C30_Idempotent ==
    [][pc = "content" /\ pc' = "content again" => Annotated(result') = Annotated(result)]_vars

====
